---- MODULE Spec2Model ----
(***************************************************************************)
(* PantryMind-AI orchestration core: the Governor (app/agents/governor.py),*)
(* the State Machine Driver (app/agents/state_machine.py), the Optimized   *)
(* Driver (app/agents/optimized_state_machine.py) and the Cost Optimizer   *)
(* (app/agents/cost_optimizer.py).                                         *)
(*                                                                         *)
(* Conventions.  Python dicts are records/functions whose DOMAIN is the    *)
(* set of keys present; d.get(k, default) is DictGet.  Python None is the  *)
(* value None.  Confidences are integers in hundredths (0.7 is 70).        *)
(* Enum members are represented by their .value strings.                   *)
(***************************************************************************)
EXTENDS Integers, Sequences, FiniteSets, TLC

VARIABLES
    rules,          \* Governor.rules
    intent_cache,   \* CostOptimizer.intent_cache
    request_stats,  \* OptimizedStateMachine.request_stats
    pc,             \* position of the request being served
    message,        \* the message of the request being served
    context,        \* the ExecutionContext of process_message
    iteration,      \* local `iteration` of process_message
    decision,       \* local `decision` of process_message
    trace,          \* per-request observation: calls made, counters, reply
    served,         \* number of requests accepted so far
    probe,          \* most recent direct call of a method: arguments, result
    gov_first,      \* first direct call of Governor.decide_next_agent
    chat_history,   \* SmartPantryAgent.chat_history / MemoryManager.short_term
    recorders,      \* position and locals of each thread recording history
    recorded        \* history calls begun, exchanges recorded, lists created

vars == <<rules, intent_cache, request_stats, pc, message, context, iteration,
          decision, trace, served, probe, gov_first, chat_history, recorders,
          recorded>>

-----------------------------------------------------------------------------
(* Python helpers *)

None == "None"

EmptyDict == [k \in {} |-> None]

DictGet(d, k, default) == IF k \in DOMAIN d THEN d[k] ELSE default

\* dict literal update {**d, k: v}
DictPut(d, k, v) == [x \in (DOMAIN d) \cup {k} |-> IF x = k THEN v ELSE d[x]]

\* Python truthiness of the values used for ids, image data and intents
Truthy(v) == v # None /\ v # ""

Last(s) == s[Len(s)]

-----------------------------------------------------------------------------
(* Enumerations: governor.py *)

ExecutionState == {"intent", "plan", "execute", "validate", "respond", "error"}

AgentRole == {"intent", "planner", "inventory", "ocr", "recipe", "validator",
              "responder"}

ToolRoles == {"inventory", "ocr", "recipe"}

\* Governor.__init__: the rule table
GovernorRules ==
    [ocr_confidence_threshold |-> 80,
     inventory_write_requires_validation |-> TRUE,
     recipe_agent_readonly |-> TRUE,
     max_plan_steps |-> 5,
     require_intent_confidence |-> 70]

AgentDecision(agent, state, confidence, reasoning, met, reason) ==
    [allowed_agent |-> agent, state |-> state, confidence |-> confidence,
     reasoning |-> reasoning, preconditions_met |-> met,
     reject_reason |-> reason]

-----------------------------------------------------------------------------
(* Governor: routing *)

\* _route_from_intent with the comparison <= in place of <
route_from_intent_strict(c) ==
    IF DictGet(c, "intent_confidence", 0) <= rules.require_intent_confidence
    THEN AgentDecision("responder", "respond", 100,
                       "Intent unclear, need clarification", FALSE,
                       "Low intent confidence")
    ELSE AgentDecision("planner", "plan", 90,
                       "Intent clear, proceed to planning", TRUE, None)

route_from_intent(c) ==
    LET intent_confidence == DictGet(c, "intent_confidence", 0)
    IN  IF intent_confidence < rules.require_intent_confidence
        THEN AgentDecision("responder", "respond", 100,
                           "Intent unclear, need clarification", FALSE,
                           "Low intent confidence")
        ELSE AgentDecision("planner", "plan", 90,
                           "Intent clear, proceed to planning", TRUE, None)

\* agent_map with the Inventory agent as the default
agent_map_inventory_default(tool_type) ==
    CASE tool_type = "ocr"    -> "ocr"
      [] tool_type = "recipe" -> "recipe"
      [] OTHER                -> "inventory"

agent_map(tool_type) ==
    CASE tool_type = "inventory" -> "inventory"
      [] tool_type = "ocr"       -> "ocr"
      [] tool_type = "recipe"    -> "recipe"
      [] OTHER                   -> "responder"

\* _route_from_plan without the max_plan_steps test
route_from_plan_unbounded(c) ==
    LET plan_steps == DictGet(c, "plan_steps", <<>>)
        first_step == IF Len(plan_steps) > 0 THEN plan_steps[1] ELSE EmptyDict
        tool_type  == DictGet(first_step, "tool_type", None)
    IN  IF tool_type \in {"greeting", "help"}
        THEN AgentDecision("responder", "respond", 100,
                           "Direct response for " \o tool_type, TRUE, None)
        ELSE AgentDecision(agent_map(tool_type), "execute", 85,
                           "Execute " \o tool_type \o " step", TRUE, None)

route_from_plan(c) ==
    LET plan_steps == DictGet(c, "plan_steps", <<>>)
        first_step == IF Len(plan_steps) > 0 THEN plan_steps[1] ELSE EmptyDict
        tool_type  == DictGet(first_step, "tool_type", None)
    IN  IF Len(plan_steps) > rules.max_plan_steps
        THEN AgentDecision("responder", "respond", 100, "Plan too complex",
                           FALSE, "Exceeds max plan steps")
        ELSE IF tool_type \in {"greeting", "help"}
        THEN AgentDecision("responder", "respond", 100,
                           "Direct response for " \o tool_type, TRUE, None)
        ELSE AgentDecision(agent_map(tool_type), "execute", 85,
                           "Execute " \o tool_type \o " step", TRUE, None)

\* _route_from_execute going on to the plan's next step while one remains
route_from_execute_next_step(c) ==
    LET plan_steps == DictGet(c, "plan_steps", <<>>)
        current_step == DictGet(c, "current_step", 0)
    IN  IF current_step < Len(plan_steps)
        THEN AgentDecision(
                 agent_map(DictGet(plan_steps[current_step + 1],
                                   "tool_type", None)),
                 "execute", 85, "Execute next step", TRUE, None)
        ELSE AgentDecision("responder", "respond", 90,
                           "Execution successful, ready to respond",
                           TRUE, None)

\* _route_from_execute sending OCR at the threshold to the Validator too
route_from_execute_inclusive(c) ==
    LET execution_result == DictGet(c, "execution_result", EmptyDict)
        confidence == DictGet(execution_result, "confidence", 0)
    IN  IF /\ DictGet(c, "current_agent", None) = "ocr"
           /\ confidence <= rules.ocr_confidence_threshold
        THEN AgentDecision("validator", "validate", 100,
                           "OCR confidence too low, needs validation",
                           TRUE, None)
        ELSE IF /\ DictGet(c, "current_agent", None) = "inventory"
                /\ DictGet(c, "operation_type", None) = "write"
                /\ rules.inventory_write_requires_validation
        THEN AgentDecision("validator", "validate", 100,
                           "Inventory write requires validation", TRUE, None)
        ELSE AgentDecision("responder", "respond", 90,
                           "Execution successful, ready to respond",
                           TRUE, None)

route_from_execute(c) ==
    LET execution_result == DictGet(c, "execution_result", EmptyDict)
        confidence == DictGet(execution_result, "confidence", 0)
    IN  IF /\ DictGet(c, "current_agent", None) = "ocr"
           /\ confidence < rules.ocr_confidence_threshold
        THEN AgentDecision("validator", "validate", 100,
                           "OCR confidence too low, needs validation",
                           TRUE, None)
        ELSE IF /\ DictGet(c, "current_agent", None) = "inventory"
                /\ DictGet(c, "operation_type", None) = "write"
                /\ rules.inventory_write_requires_validation
        THEN AgentDecision("validator", "validate", 100,
                           "Inventory write requires validation", TRUE, None)
        ELSE AgentDecision("responder", "respond", 90,
                           "Execution successful, ready to respond",
                           TRUE, None)

route_from_validate(c) ==
    LET validation_result == DictGet(c, "validation_result", EmptyDict)
        is_valid == DictGet(validation_result, "is_valid", FALSE)
    IN  IF ~is_valid
        THEN AgentDecision("responder", "error", 100, "Validation failed",
                           FALSE,
                           DictGet(validation_result, "error_reason",
                                   "Validation failed"))
        ELSE AgentDecision("responder", "respond", 100,
                           "Validation passed, ready to respond", TRUE, None)

\* decide_next_agent dispatching the plan's tool agent again at EXECUTE
decide_next_agent_redispatch(current_state, c) ==
    CASE current_state = "intent"   -> route_from_intent(c)
      [] current_state = "plan"     -> route_from_plan(c)
      [] current_state = "execute"  -> route_from_plan(c)
      [] current_state = "validate" -> route_from_validate(c)
      [] OTHER -> AgentDecision("responder", "respond", 100,
                                "Default to response", TRUE, None)

decide_next_agent(current_state, c) ==
    CASE current_state = "intent"   -> route_from_intent(c)
      [] current_state = "plan"     -> route_from_plan(c)
      [] current_state = "execute"  -> route_from_execute(c)
      [] current_state = "validate" -> route_from_validate(c)
      [] OTHER -> AgentDecision("responder", "respond", 100,
                                "Default to response", TRUE, None)

-----------------------------------------------------------------------------
(* Governor: tool preconditions *)

\* _validate_inventory_preconditions without the canonical_item_id test
validate_inventory_preconditions_quantity_only(tool_input) ==
    IF DictGet(tool_input, "operation", None) = "update"
    THEN ~(DictGet(tool_input, "quantity", 0) < 0)
    ELSE TRUE

validate_inventory_preconditions(tool_input) ==
    IF DictGet(tool_input, "operation", None) = "update"
    THEN /\ ~(DictGet(tool_input, "quantity", 0) < 0)
         /\ Truthy(DictGet(tool_input, "canonical_item_id", None))
    ELSE TRUE

validate_ocr_preconditions(tool_input) ==
    Truthy(DictGet(tool_input, "image_data", None))

\* _validate_recipe_preconditions rejecting only create and delete
validate_recipe_preconditions_writes(tool_input) ==
    ~(DictGet(tool_input, "operation", None) \in {"create", "delete"})

validate_recipe_preconditions(tool_input) ==
    ~(DictGet(tool_input, "operation", None) \in {"create", "update", "delete"})

validate_tool_preconditions(agent, tool_input) ==
    CASE agent = "inventory" -> validate_inventory_preconditions(tool_input)
      [] agent = "ocr"       -> validate_ocr_preconditions(tool_input)
      [] agent = "recipe"    -> validate_recipe_preconditions(tool_input)
      [] OTHER               -> TRUE

-----------------------------------------------------------------------------
(* Strings.  A message is a tuple of one-character strings, so that        *)
(* lower(), strip(), split() and the pattern searches can be computed.     *)

UpperAlphabet == <<"A","B","C","D","E","F","G","H","I","J","K","L","M",
                   "N","O","P","Q","R","S","T","U","V","W","X","Y","Z">>

LowerAlphabet == <<"a","b","c","d","e","f","g","h","i","j","k","l","m",
                   "n","o","p","q","r","s","t","u","v","w","x","y","z">>

LowerChar(ch) ==
    IF \E i \in 1..26 : UpperAlphabet[i] = ch
    THEN LowerAlphabet[CHOOSE i \in 1..26 : UpperAlphabet[i] = ch]
    ELSE ch

\* str.lower()
Lower(s) == [i \in 1..Len(s) |-> LowerChar(s[i])]

IsSpace(ch) == ch = " "

\* str.strip()
Strip(s) ==
    LET nonblank == {i \in 1..Len(s) : ~IsSpace(s[i])}
    IN  IF nonblank = {} THEN <<>>
        ELSE LET lo == CHOOSE i \in nonblank : \A j \in nonblank : i <= j
                 hi == CHOOSE i \in nonblank : \A j \in nonblank : i >= j
             IN  SubSeq(s, lo, hi)

-----------------------------------------------------------------------------
(* State Machine Driver: state_machine.py *)

\* ExecutionContext(user_message=..., kitchen_id=..., user_email=...)
ExecutionContext(m, kitchen_id, user_email) ==
    [user_message |-> m, kitchen_id |-> kitchen_id, user_email |-> user_email,
     current_state |-> "intent", intent |-> None, intent_confidence |-> 0,
     plan_steps |-> <<>>, current_step |-> 0, execution_results |-> <<>>,
     validation_results |-> <<>>, errors |-> <<>>, metadata |-> EmptyDict]

\* max_iterations = 10
max_iterations == 10

build_governor_context(ctx) ==
    [intent_confidence |-> ctx.intent_confidence,
     plan_steps        |-> ctx.plan_steps,
     current_step      |-> ctx.current_step,
     execution_result  |-> IF Len(ctx.execution_results) > 0
                           THEN Last(ctx.execution_results) ELSE EmptyDict,
     validation_result |-> IF Len(ctx.validation_results) > 0
                           THEN Last(ctx.validation_results) ELSE EmptyDict,
     \* getattr(context, 'current_agent', None): ExecutionContext has no
     \* such attribute, nor 'operation_type'
     current_agent     |-> None,
     operation_type    |-> None]

\* the input_data built by _execute_agent for each role
agent_input(agent_role, ctx) ==
    CASE agent_role = "intent" -> [message |-> ctx.user_message]
      [] agent_role = "planner" ->
            [intent |-> ctx.intent, message |-> ctx.user_message,
             kitchen_id |-> ctx.kitchen_id]
      [] agent_role \in ToolRoles ->
            IF ctx.current_step < Len(ctx.plan_steps)
            THEN LET step == ctx.plan_steps[ctx.current_step + 1]
                     base == [operation  |-> DictGet(step, "operation", None),
                              kitchen_id |-> ctx.kitchen_id,
                              user_email |-> ctx.user_email]
                 IN  \* {..., **step}: the step's keys override
                     [k \in (DOMAIN base) \cup (DOMAIN step) |->
                        IF k \in DOMAIN step THEN step[k] ELSE base[k]]
            ELSE [kitchen_id |-> ctx.kitchen_id]
      [] agent_role = "validator" ->
            LET last_result == IF Len(ctx.execution_results) > 0
                               THEN Last(ctx.execution_results) ELSE EmptyDict
            IN  [validation_type |->
                    IF "extracted_items" \in DOMAIN last_result
                    THEN "ocr_result" ELSE "inventory_write",
                 data |-> last_result]
      [] agent_role = "responder" ->
            [execution_state |-> IF Len(ctx.errors) > 0 THEN "error"
                                 ELSE "success",
             context |-> [intent |-> ctx.intent,
                          execution_results |-> ctx.execution_results,
                          error_reason |-> IF Len(ctx.errors) > 0
                                           THEN Last(ctx.errors) ELSE None,
                          plan_steps |-> ctx.plan_steps]]
      [] OTHER -> EmptyDict

\* What an agent's execute does is the collaborator's choice: `o` is either
\* [kind |-> "raise", fault] or [kind |-> "return", success, data,
\* confidence, error_message] (an AgentResult).
Raises(o) == o.kind = "raise"

\* _execute_agent without the precondition check
execute_agent_unchecked(agent_role, ctx, o) ==
    LET input_data == agent_input(agent_role, ctx)
    IN  IF Raises(o)
        THEN [raised |-> TRUE, called |-> TRUE, input |-> input_data,
              fault |-> o.fault]
        ELSE [raised |-> FALSE, called |-> TRUE, input |-> input_data,
              result |-> [agent |-> agent_role, success |-> o.success,
                          data |-> o.data, confidence |-> o.confidence,
                          error_message |-> o.error_message,
                          side_effects |-> <<>>, metadata |-> EmptyDict]]

\* _execute_agent: the precondition check on the input just built, then the
\* call, then the result dict.
execute_agent(agent_role, ctx, o) ==
    LET input_data == agent_input(agent_role, ctx)
    IN  IF ~validate_tool_preconditions(agent_role, input_data)
        THEN [raised |-> TRUE, called |-> FALSE, input |-> input_data,
              fault |-> "Preconditions not met for " \o agent_role]
        ELSE IF Raises(o)
        THEN [raised |-> TRUE, called |-> TRUE, input |-> input_data,
              fault |-> o.fault]
        ELSE [raised |-> FALSE, called |-> TRUE, input |-> input_data,
              result |-> [agent |-> agent_role, success |-> o.success,
                          data |-> o.data, confidence |-> o.confidence,
                          error_message |-> o.error_message,
                          side_effects |-> <<>>, metadata |-> EmptyDict]]

\* _update_context_from_result without the early return on a failure
update_context_from_result_stores_failure(ctx, agent_role, result) ==
    IF ~result.success
    THEN [ctx EXCEPT !.errors = Append(@, result.error_message),
                     !.metadata = DictPut(@, agent_role \o "_result", result)]
    ELSE LET data == result.data
             folded ==
               CASE agent_role = "intent" ->
                      [ctx EXCEPT !.intent = DictGet(data, "intent", None),
                                  !.intent_confidence =
                                      DictGet(data, "confidence", 0)]
                 [] agent_role = "planner" ->
                      [ctx EXCEPT !.plan_steps =
                                      DictGet(data, "plan_steps", <<>>),
                                  !.current_step = 0]
                 [] agent_role \in ToolRoles ->
                      [ctx EXCEPT !.execution_results = Append(@, result),
                                  !.current_step = @ + 1]
                 [] agent_role = "validator" ->
                      [ctx EXCEPT !.validation_results = Append(@, result),
                                  !.errors =
                                      IF ~DictGet(data, "is_valid", TRUE)
                                      THEN @ \o DictGet(data, "errors", <<>>)
                                      ELSE @]
                 [] OTHER -> ctx
         IN  [folded EXCEPT !.metadata =
                 DictPut(@, agent_role \o "_result", result)]

update_context_from_result(ctx, agent_role, result) ==
    IF ~result.success
    THEN [ctx EXCEPT !.errors = Append(@, result.error_message)]
    ELSE LET data == result.data
             folded ==
               CASE agent_role = "intent" ->
                      [ctx EXCEPT !.intent = DictGet(data, "intent", None),
                                  !.intent_confidence =
                                      DictGet(data, "confidence", 0)]
                 [] agent_role = "planner" ->
                      [ctx EXCEPT !.plan_steps =
                                      DictGet(data, "plan_steps", <<>>),
                                  !.current_step = 0]
                 [] agent_role \in ToolRoles ->
                      [ctx EXCEPT !.execution_results = Append(@, result),
                                  !.current_step = @ + 1]
                 [] agent_role = "validator" ->
                      [ctx EXCEPT !.validation_results = Append(@, result),
                                  !.errors =
                                      IF ~DictGet(data, "is_valid", TRUE)
                                      THEN @ \o DictGet(data, "errors", <<>>)
                                      ELSE @]
                 [] OTHER -> ctx
         IN  [folded EXCEPT !.metadata =
                 DictPut(@, agent_role \o "_result", result)]

\* The loop condition of process_message.
loop_condition_unbounded(ctx, it) == ctx.current_state # "respond"

loop_condition(ctx, it) ==
    ctx.current_state # "respond" /\ it < max_iterations

\* One pass through the body of the while loop of process_message, for the
\* agent behaviour `o`.  `context` is the context after the pass; `calls` is
\* the sequence (empty or one entry) of agent execute calls made.
loop_body(ctx, o) ==
    LET d == decide_next_agent(ctx.current_state, build_governor_context(ctx))
    IN  IF ~d.preconditions_met
        THEN [decision |-> d,
              calls    |-> <<>>,
              context  |-> [ctx EXCEPT
                              !.current_state = "error",
                              !.errors = Append(@,
                                  IF Truthy(d.reject_reason)
                                  THEN d.reject_reason
                                  ELSE "Action rejected")]]
        ELSE LET ex == execute_agent(d.allowed_agent, ctx, o)
                 call == [role |-> d.allowed_agent, input |-> ex.input,
                          ok |-> (~ex.raised) /\ ex.result.success]
             IN  IF ex.raised
                 THEN [decision |-> d,
                       calls    |-> IF ex.called THEN <<call>> ELSE <<>>,
                       context  |-> [ctx EXCEPT
                                       !.current_state = "error",
                                       !.errors = Append(@, ex.fault)]]
                 ELSE [decision |-> d,
                       calls    |-> <<call>>,
                       context  |-> [update_context_from_result(
                                        ctx, d.allowed_agent, ex.result)
                                     EXCEPT !.current_state = d.state]]

-----------------------------------------------------------------------------
(* Bounds and input sets *)

\* requests served by one state machine instance
MaxRequests == 2

\* longest plan a Planner returns
MaxPlanLen == 6

KitchenIds == {1}

UserEmails == {"cook@example.com"}

\* "Hello ", " hi", "hey", "what can I cook", "show vegetables"
Messages ==
    {<<"H","e","l","l","o"," ">>,
     <<" ","h","i">>,
     <<"h","e","y">>,
     <<"w","h","a","t"," ","c","a","n"," ","I"," ","c","o","o","k">>,
     <<"s","h","o","w"," ","v","e","g","e","t","a","b","l","e","s">>}

Greetings == {<<"h","e","l","l","o">>, <<"h","i">>, <<"h","e","y">>}

Intents == {"inventory_list", "inventory_category", "recipe", "smalltalk", ""}

IntentConfidences == {40, 90}

-----------------------------------------------------------------------------
(* Capability Agents: the behaviours the Driver can meet *)

Fault == [kind |-> "raise", fault |-> "agent fault"]

Failure ==
    [kind |-> "return", success |-> FALSE, data |-> EmptyDict,
     confidence |-> 0, error_message |-> "agent failed"]

Success(data, confidence) ==
    [kind |-> "return", success |-> TRUE, data |-> data,
     confidence |-> confidence, error_message |-> None]

\* plan steps: tool_type, operation and the fields the precondition checks read
Steps ==
    {[tool_type |-> "greeting", operation |-> "greet_user"],
     [tool_type |-> "help", operation |-> "provide_guidance"],
     [tool_type |-> "analytics", operation |-> "generate_report"],
     [operation |-> "read"],
     [tool_type |-> "inventory", operation |-> "read"],
     [tool_type |-> "inventory", operation |-> "update", quantity |-> 2,
      canonical_item_id |-> "rice-1"],
     [tool_type |-> "inventory", operation |-> "update", quantity |-> -1,
      canonical_item_id |-> "rice-1"],
     [tool_type |-> "ocr", operation |-> "process", image_data |-> "jpeg"],
     [tool_type |-> "ocr", operation |-> "process"],
     [tool_type |-> "recipe", operation |-> "generate"],
     [tool_type |-> "recipe", operation |-> "create"],
     [tool_type |-> "recipe", operation |-> "update"],
     [tool_type |-> "recipe", operation |-> "delete"]}

FillerStep == [tool_type |-> "inventory", operation |-> "read"]

\* a first step followed by n-1 further steps
PlanOf(first, n) == [i \in 1..n |-> IF i = 1 THEN first ELSE FillerStep]

Plans == {<<>>} \cup {PlanOf(s, n) : s \in Steps, n \in 1..MaxPlanLen}

IntentOutcomes ==
    {Fault, Failure, Success(EmptyDict, 0)}
    \cup {Success([intent |-> i, confidence |-> c, category |-> None], c) :
            i \in Intents, c \in IntentConfidences}
    \cup {Success([intent |-> "inventory_category", confidence |-> 90,
                   category |-> "vegetables"], 90)}

PlannerOutcomes ==
    {Fault, Failure, Success(EmptyDict, 90)}
    \cup {Success([plan_steps |-> p, total_steps |-> Len(p)], 90) :
            p \in Plans}

ToolOutcomes ==
    {Fault, Failure}
    \cup {Success([extracted_items |-> <<"Milk">>], c) : c \in {60, 92}}
    \cup {Success([inventory |-> <<>>], 100)}

ValidatorOutcomes ==
    {Fault, Failure, Success(EmptyDict, 100),
     Success([is_valid |-> TRUE, errors |-> <<>>], 100),
     Success([is_valid |-> FALSE, errors |-> <<"Missing item name">>], 100)}

\* The Responder's text is whatever it makes of its input; the model keeps
\* the input it was made from.  Without a "response" key the Driver falls
\* back to a fixed text.
ResponderOutcomes(input_data) ==
    {Fault, Failure, Success(EmptyDict, 100),
     Success([response |-> [text_for |-> input_data.execution_state,
                            reason |-> DictGet(input_data.context,
                                               "error_reason", None)]], 100)}

AgentOutcomes(agent_role, ctx) ==
    CASE agent_role = "intent"    -> IntentOutcomes
      [] agent_role = "planner"   -> PlannerOutcomes
      [] agent_role \in ToolRoles -> ToolOutcomes
      [] agent_role = "validator" -> ValidatorOutcomes
      [] OTHER -> ResponderOutcomes(agent_input("responder", ctx))

-----------------------------------------------------------------------------
(* Cost Optimizer: the intent cache (cost_optimizer.py) *)

\* hashlib.md5(message.lower().encode()).hexdigest(): the digest is taken to
\* be injective on the messages considered, so the lower-cased message
\* stands for its digest.
message_hash(m) == Lower(m)

\* cache_intent as a setdefault: an existing entry is kept
cache_intent_keep_first(cache, m, intent, confidence) ==
    IF message_hash(m) \in DOMAIN cache THEN cache
    ELSE DictPut(cache, message_hash(m),
                 [intent |-> intent, confidence |-> confidence,
                  cached |-> TRUE])

cache_intent(cache, m, intent, confidence) ==
    DictPut(cache, message_hash(m),
            [intent |-> intent, confidence |-> confidence, cached |-> TRUE])

-----------------------------------------------------------------------------
(* The program: requests served by one OptimizedStateMachine instance,     *)
(* through its own process_message or the inherited one.                   *)

\* threads that serve requests at the same time
Workers == {"w1", "w2", "w3"}

IdleRecorder == [pc |-> "idle"]

NoDecision == [allowed_agent |-> None]

NoCall == [fn |-> None]

IdleContext == ExecutionContext(<<>>, 1, "")

NewTrace(entry) ==
    [entry |-> entry, base |-> entry = "base", calls |-> <<>>,
     decisions |-> 0, assignments |-> 0, status |-> "running",
     reply |-> [source |-> None]]

Returned(t, reply) == [t EXCEPT !.status = "returned", !.reply = reply]

Raised(t, fault) ==
    [t EXCEPT !.status = "raised", !.reply = [source |-> "fault",
                                               text |-> fault]]

Init ==
    /\ rules = GovernorRules
    /\ intent_cache = EmptyDict
    /\ request_stats = [llm_calls |-> 0, early_exits |-> 0, java_direct |-> 0]
    /\ pc = "idle"
    /\ message = <<>>
    /\ context = IdleContext
    /\ iteration = 0
    /\ decision = NoDecision
    /\ trace = [NewTrace(None) EXCEPT !.status = "idle"]
    /\ served = 0
    /\ probe = NoCall
    /\ gov_first = NoCall
    /\ chat_history = EmptyDict
    /\ recorders = [w \in Workers |-> IdleRecorder]
    /\ recorded = [kind |-> None, calls |-> 0, exchanges |-> 0, lists |-> 0,
                   overlapped |-> FALSE]

HistoryUnchanged == UNCHANGED <<chat_history, recorders, recorded>>

HarnessUnchanged == UNCHANGED <<probe, gov_first>> /\ HistoryUnchanged

CanAccept == pc \in {"idle", "done"} /\ served < MaxRequests

\* AgentStateMachine.process_message, up to the loop: a fresh context
EnterBase(m, kitchen_id, user_email) ==
    /\ context' = ExecutionContext(m, kitchen_id, user_email)
    /\ iteration' = 0
    /\ decision' = NoDecision
    /\ pc' = "loop"

\* A request made of AgentStateMachine.process_message directly.
ProcessMessage ==
    /\ CanAccept
    /\ \E m \in Messages, k \in KitchenIds, u \in UserEmails :
          /\ message' = m
          /\ EnterBase(m, k, u)
    /\ trace' = NewTrace("base")
    /\ served' = served + 1
    /\ UNCHANGED <<rules, intent_cache, request_stats>>
    /\ HarnessUnchanged

\* One pass through the while loop.
LoopIteration ==
    /\ pc = "loop"
    /\ loop_condition(context, iteration)
    /\ LET d == decide_next_agent(context.current_state,
                                  build_governor_context(context))
       IN  \E o \in AgentOutcomes(d.allowed_agent, context) :
              LET pass == loop_body(context, o)
              IN  /\ context' = pass.context
                  /\ decision' = pass.decision
                  /\ trace' = [trace EXCEPT
                                 !.calls = @ \o pass.calls,
                                 !.decisions = @ + 1,
                                 !.assignments = @ + 1]
    /\ iteration' = iteration + 1
    /\ UNCHANGED <<rules, intent_cache, request_stats, pc, message, served>>
    /\ HarnessUnchanged

\* _generate_error_response / _generate_final_response: the Responder call
\* made after the loop, outside any try block.
final_input(ctx) ==
    IF ctx.current_state = "error"
    THEN [execution_state |-> "error",
          context |-> [error_reason |-> IF Len(ctx.errors) > 0
                                        THEN Last(ctx.errors)
                                        ELSE "Unknown error"]]
    ELSE [execution_state |-> "success",
          context |-> [intent |-> ctx.intent,
                       execution_results |-> ctx.execution_results,
                       plan_steps |-> ctx.plan_steps]]

final_default(ctx) ==
    IF ctx.current_state = "error" THEN "Sorry, something went wrong."
    ELSE "Task completed successfully!"

FinalResponse ==
    /\ pc = "loop"
    /\ ~loop_condition(context, iteration)
    /\ \E o \in ResponderOutcomes(final_input(context)) :
          LET call == [role |-> "responder", input |-> final_input(context),
                       ok |-> ~Raises(o) /\ o.success]
              t == [trace EXCEPT !.calls = Append(@, call)]
          IN  trace' =
                IF Raises(o) THEN Raised(t, o.fault)
                ELSE IF "response" \in DOMAIN o.data
                THEN Returned(t, [source |-> "responder",
                                  text_for |-> o.data.response.text_for,
                                  reason |-> o.data.response.reason])
                ELSE Returned(t, [source |-> "default",
                                  text |-> final_default(context)])
    /\ pc' = "done"
    /\ UNCHANGED <<rules, intent_cache, request_stats, message, context,
                   iteration, decision, served>>
    /\ HarnessUnchanged

-----------------------------------------------------------------------------
(* Optimized Driver: optimized_state_machine.py *)

\* _execute_direct_action: the formatter chosen for an intent.  "base" is
\* super().process_message; "name_error" is the read of the undefined name
\* intent_result in the inventory_category branch.
direct_action(intent) ==
    CASE intent \in {"inventory", "inventory_list", "inventory_check"} ->
            [kind |-> "reply", handler |-> "_get_inventory_direct"]
      [] intent = "inventory_category" ->
            [kind |-> "raise",
             fault |-> "name 'intent_result' is not defined"]
      [] intent = "inventory_consume" ->
            [kind |-> "reply", handler |-> "consume_template"]
      [] intent = "inventory_expiring" ->
            [kind |-> "reply", handler |-> "_get_expiring_items"]
      [] intent = "inventory_low_stock" ->
            [kind |-> "reply", handler |-> "_get_low_stock_items"]
      [] intent = "shopping_list" ->
            [kind |-> "reply", handler |-> "_get_shopping_list"]
      [] intent = "inventory_add" ->
            [kind |-> "reply", handler |-> "add_template"]
      [] intent = "greeting" ->
            [kind |-> "reply", handler |-> "greeting_template"]
      [] intent = "help" ->
            [kind |-> "reply", handler |-> "help_template"]
      [] intent = "recipe" -> [kind |-> "base"]
      [] OTHER -> [kind |-> "reply", handler |-> "be_more_specific"]

\* _process_with_minimal_llm, for the Intent agent's behaviour `o`: what the
\* call does next and the intent it caches, if any.
process_with_minimal_llm(m, o) ==
    IF Raises(o) THEN [kind |-> "raise", fault |-> o.fault, cache |-> FALSE]
    ELSE IF ~o.success
    THEN [kind |-> "reply", handler |-> "trouble_understanding",
          cache |-> FALSE]
    ELSE LET intent == DictGet(o.data, "intent", None)
             confidence == DictGet(o.data, "confidence", 0)
         IN  IF ~Truthy(intent)
             THEN [kind |-> "reply", handler |-> "not_sure", cache |-> FALSE]
             ELSE [cache |-> TRUE, intent |-> intent,
                   confidence |-> confidence]
                  @@ (IF confidence > 50 THEN direct_action(intent)
                      ELSE [kind |-> "base"])

\* the greeting test without strip()
is_exact_greeting_unstripped(m) == Lower(m) \in Greetings

\* message.lower().strip() in ["hello", "hi", "hey"]
is_exact_greeting(m) == Strip(Lower(m)) \in Greetings

\* OptimizedStateMachine.process_message
OptimizedProcessMessage ==
    /\ CanAccept
    /\ served' = served + 1
    /\ \E m \in Messages, k \in KitchenIds, u \in UserEmails :
        /\ message' = m
        /\ IF is_exact_greeting(m)
           THEN /\ request_stats' =
                      [request_stats EXCEPT !.early_exits = @ + 1]
                /\ trace' = Returned(NewTrace("optimized"),
                                     [source |-> "canned",
                                      text |-> "greeting"])
                /\ pc' = "done"
                /\ UNCHANGED <<intent_cache, context, iteration, decision>>
           ELSE /\ request_stats' =
                      [request_stats EXCEPT !.llm_calls = @ + 1]
                /\ \E o \in IntentOutcomes :
                    LET r == process_with_minimal_llm(m, o)
                        call == [role |-> "intent",
                                 input |-> [message |-> m],
                                 ok |-> ~Raises(o) /\ o.success,
                                 output |-> o]
                        t == [NewTrace("optimized") EXCEPT
                                !.calls = <<call>>]
                    IN  /\ intent_cache' =
                              IF r.cache
                              THEN cache_intent(intent_cache, m, r.intent,
                                                r.confidence)
                              ELSE intent_cache
                        /\ CASE r.kind = "raise" ->
                                  /\ trace' = Raised(t, r.fault)
                                  /\ pc' = "done"
                                  /\ UNCHANGED <<context, iteration, decision>>
                             [] r.kind = "reply" ->
                                  /\ trace' = Returned(t,
                                        [source |-> "direct",
                                         text |-> r.handler])
                                  /\ pc' = "done"
                                  /\ UNCHANGED <<context, iteration, decision>>
                             [] OTHER ->
                                  /\ trace' = [t EXCEPT !.base = TRUE]
                                  /\ EnterBase(m, k, u)
    /\ UNCHANGED rules
    /\ HarnessUnchanged

Next == ProcessMessage \/ OptimizedProcessMessage \/ LoopIteration
        \/ FinalResponse

Spec == Init /\ [][Next]_vars

\* An agent call blocks until it returns, raises or times out, so a pass of
\* the loop that has begun completes and the final Responder call is made.
FairSpec == Spec /\ WF_vars(LoopIteration) /\ WF_vars(FinalResponse)

-----------------------------------------------------------------------------
(* Cost Optimizer: the exit gates (cost_optimizer.py).  An Optional[Dict]  *)
(* result is a record; None is NoResult, the empty dict: every dict these  *)
(* methods return has keys, and the callers only test truthiness.          *)

NoResult == EmptyDict

Found(result) == DOMAIN result # {}

Digits == <<"0","1","2","3","4","5","6","7","8","9">>

IsDigit(ch) == \E i \in 1..10 : Digits[i] = ch

DigitValue(ch) == (CHOOSE i \in 1..10 : Digits[i] = ch) - 1

SetMin(S) == CHOOSE x \in S : \A y \in S : x <= y

\* a pattern atom is a literal character or the class \d
AtomMatches(atom, ch) == IF atom = "\\d" THEN IsDigit(ch) ELSE atom = ch

MatchAt(part, s, i) ==
    /\ i + Len(part) - 1 <= Len(s)
    /\ \A k \in 1..Len(part) : AtomMatches(part[k], s[i + k - 1])

\* leftmost position >= start where `part` matches, 0 if none
FindFrom(part, s, start) ==
    LET hits == {i \in start..(Len(s) - Len(part) + 1) : MatchAt(part, s, i)}
    IN  IF hits = {} THEN 0 ELSE SetMin(hits)

\* re.search of part1.*part2.*...: each part after the previous one
RECURSIVE SearchFrom(_, _, _)
SearchFrom(parts, s, start) ==
    IF parts = <<>> THEN TRUE
    ELSE LET i == FindFrom(Head(parts), s, start)
         IN  i # 0 /\ SearchFrom(Tail(parts), s, i + Len(Head(parts)))

re_search(pattern, s) ==
    IF pattern.anchored THEN s \in pattern.alternatives
    ELSE SearchFrom(pattern.parts, s, 1)

\* `sub in s`
Contains(sub, s) == FindFrom(sub, s, 1) # 0

\* str.split(): the whitespace-separated words
RECURSIVE SplitFrom(_, _)
SplitFrom(s, i) ==
    IF i > Len(s) THEN <<>>
    ELSE IF IsSpace(s[i]) THEN SplitFrom(s, i + 1)
    ELSE LET stops == {j \in i..Len(s) : IsSpace(s[j])}
             end == IF stops = {} THEN Len(s) + 1 ELSE SetMin(stops)
         IN  <<SubSeq(s, i, end - 1)>> \o SplitFrom(s, end)

Split(s) == SplitFrom(s, 1)

\* int(digits) of the digit run starting at position i
RECURSIVE ParseDigits(_, _, _)
ParseDigits(s, i, acc) ==
    IF i <= Len(s) /\ IsDigit(s[i])
    THEN ParseDigits(s, i + 1, 10 * acc + DigitValue(s[i]))
    ELSE acc

\* self.simple_patterns, in dict order
simple_patterns ==
    <<
      \* inventory.*items, what.*inventory, show.*inventory, list.*items
      [intent |-> "inventory_list", patterns |->
        <<[anchored |-> FALSE, parts |-> <<<<"i","n","v","e","n","t","o","r","y">>, <<"i","t","e","m","s">>>>],
          [anchored |-> FALSE, parts |-> <<<<"w","h","a","t">>, <<"i","n","v","e","n","t","o","r","y">>>>],
          [anchored |-> FALSE, parts |-> <<<<"s","h","o","w">>, <<"i","n","v","e","n","t","o","r","y">>>>],
          [anchored |-> FALSE, parts |-> <<<<"l","i","s","t">>, <<"i","t","e","m","s">>>>]>>],
      \* expiring.*soon, items.*expiring, expired.*items, all.*expired
      [intent |-> "inventory_expiring", patterns |->
        <<[anchored |-> FALSE, parts |-> <<<<"e","x","p","i","r","i","n","g">>, <<"s","o","o","n">>>>],
          [anchored |-> FALSE, parts |-> <<<<"i","t","e","m","s">>, <<"e","x","p","i","r","i","n","g">>>>],
          [anchored |-> FALSE, parts |-> <<<<"e","x","p","i","r","e","d">>, <<"i","t","e","m","s">>>>],
          [anchored |-> FALSE, parts |-> <<<<"a","l","l">>, <<"e","x","p","i","r","e","d">>>>]>>],
      \* low.*stock, running.*low, almost.*empty
      [intent |-> "inventory_low_stock", patterns |->
        <<[anchored |-> FALSE, parts |-> <<<<"l","o","w">>, <<"s","t","o","c","k">>>>],
          [anchored |-> FALSE, parts |-> <<<<"r","u","n","n","i","n","g">>, <<"l","o","w">>>>],
          [anchored |-> FALSE, parts |-> <<<<"a","l","m","o","s","t">>, <<"e","m","p","t","y">>>>]>>],
      \* .*i have, check.*, how much.*, do.*have
      [intent |-> "inventory_check", patterns |->
        <<[anchored |-> FALSE, parts |-> <<<<"i"," ","h","a","v","e">>>>],
          [anchored |-> FALSE, parts |-> <<<<"c","h","e","c","k">>>>],
          [anchored |-> FALSE, parts |-> <<<<"h","o","w"," ","m","u","c","h">>>>],
          [anchored |-> FALSE, parts |-> <<<<"d","o">>, <<"h","a","v","e">>>>]>>],
      \* add \d+.*, put.*in.*pantry
      [intent |-> "inventory_add", patterns |->
        <<[anchored |-> FALSE, parts |-> <<<<"a","d","d"," ","\\d">>>>],
          [anchored |-> FALSE, parts |-> <<<<"p","u","t">>, <<"i","n">>, <<"p","a","n","t","r","y">>>>]>>],
      \* ^(hi|hello|hey)$
      [intent |-> "greeting", patterns |->
        <<[anchored |-> TRUE, alternatives |-> {<<"h","i">>, <<"h","e","l","l","o">>, <<"h","e","y">>}]>>],
      \* help, what.*can.*do
      [intent |-> "help", patterns |->
        <<[anchored |-> FALSE, parts |-> <<<<"h","e","l","p">>>>],
          [anchored |-> FALSE, parts |-> <<<<"w","h","a","t">>, <<"c","a","n">>, <<"d","o">>>>]>>]
    >>

\* intent_keywords of _check_semantic_similarity, in dict order, one row per
\* (intent, keyword)
intent_keywords ==
    <<
      [intent |-> "inventory_add", keyword |-> <<"a","d","d">>],
      [intent |-> "inventory_add", keyword |-> <<"p","u","t">>],
      [intent |-> "inventory_add", keyword |-> <<"s","t","o","r","e">>],
      [intent |-> "inventory_add", keyword |-> <<"i","n","s","e","r","t">>],
      [intent |-> "inventory_add", keyword |-> <<"i","n","c","l","u","d","e">>],
      [intent |-> "inventory_list", keyword |-> <<"s","h","o","w">>],
      [intent |-> "inventory_list", keyword |-> <<"l","i","s","t">>],
      [intent |-> "inventory_list", keyword |-> <<"d","i","s","p","l","a","y">>],
      [intent |-> "inventory_list", keyword |-> <<"v","i","e","w">>],
      [intent |-> "inventory_list", keyword |-> <<"s","e","e">>],
      [intent |-> "inventory_check", keyword |-> <<"h","a","v","e">>],
      [intent |-> "inventory_check", keyword |-> <<"c","h","e","c","k">>],
      [intent |-> "inventory_check", keyword |-> <<"f","i","n","d">>],
      [intent |-> "inventory_check", keyword |-> <<"s","e","a","r","c","h">>],
      [intent |-> "inventory_check", keyword |-> <<"l","o","o","k">>],
      [intent |-> "shopping_list", keyword |-> <<"s","h","o","p","p","i","n","g">>],
      [intent |-> "shopping_list", keyword |-> <<"b","u","y">>],
      [intent |-> "shopping_list", keyword |-> <<"p","u","r","c","h","a","s","e">>],
      [intent |-> "shopping_list", keyword |-> <<"n","e","e","d">>],
      [intent |-> "shopping_list", keyword |-> <<"l","i","s","t">>],
      [intent |-> "recipe", keyword |-> <<"c","o","o","k">>],
      [intent |-> "recipe", keyword |-> <<"m","a","k","e">>],
      [intent |-> "recipe", keyword |-> <<"r","e","c","i","p","e">>],
      [intent |-> "recipe", keyword |-> <<"p","r","e","p","a","r","e">>],
      [intent |-> "recipe", keyword |-> <<"d","i","s","h">>],
      [intent |-> "help", keyword |-> <<"h","e","l","p">>],
      [intent |-> "help", keyword |-> <<"a","s","s","i","s","t">>],
      [intent |-> "help", keyword |-> <<"g","u","i","d","e">>],
      [intent |-> "help", keyword |-> <<"s","u","p","p","o","r","t">>]
    >>

ExactMatchKeys ==
    {<<"h","e","l","l","o">>,
     <<"h","i">>,
     <<"h","e","l","p">>,
     <<"i","n","v","e","n","t","o","r","y">>,
     <<"s","h","o","w"," ","i","n","v","e","n","t","o","r","y">>,
     <<"l","i","s","t"," ","i","t","e","m","s">>}

\* exact_matches[key] of _check_rule_based_exit
exact_matches(key) ==
    CASE key = <<"h","e","l","l","o">> ->
            [intent |-> "greeting",
             response |-> "Hello! I'm your PantryMind assistant. What can I help you with?"]
      [] key = <<"h","i">> ->
            [intent |-> "greeting",
             response |-> "Hi there! How can I help you manage your pantry today?"]
      [] key = <<"h","e","l","p">> ->
            [intent |-> "help",
             response |-> "I can help you manage inventory, find recipes, process receipts, and analyze your pantry data."]
      [] key = <<"i","n","v","e","n","t","o","r","y">> ->
            [intent |-> "inventory_list", action |-> "list_inventory"]
      [] key = <<"s","h","o","w"," ","i","n","v","e","n","t","o","r","y">> ->
            [intent |-> "inventory_list", action |-> "list_inventory"]
      [] key = <<"l","i","s","t"," ","i","t","e","m","s">> ->
            [intent |-> "inventory_list", action |-> "list_inventory"]

check_rule_based_exit(m) ==
    LET message_lower == Strip(Lower(m))
    IN  IF message_lower \in ExactMatchKeys
        THEN exact_matches(message_lower)
             @@ [exit_gate |-> "rule_based", llm_calls |-> 0]
        ELSE NoResult

\* _check_cached_intent writes exit_gate and llm_calls into the cached dict
\* itself and returns that dict: `result` and the cache after the call.
check_cached_intent(cache, m) ==
    LET h == message_hash(m)
    IN  IF h \in DOMAIN cache
        THEN LET cached == [exit_gate |-> "cached_intent", llm_calls |-> 0]
                           @@ cache[h]
             IN  [result |-> cached, cache |-> DictPut(cache, h, cached)]
        ELSE [result |-> NoResult, cache |-> cache]

crud_result(intent, message_lower) ==
    LET result == [intent |-> intent, confidence |-> 95,
                   exit_gate |-> "simple_crud", llm_calls |-> 0]
        qty_at == FindFrom(<<"a","d","d"," ","\\d">>, message_lower, 1)
    IN  CASE intent = "inventory_add" ->
               IF qty_at # 0
               THEN result @@ [quantity |-> ParseDigits(message_lower,
                                                          qty_at + 4, 0),
                               action |-> "add_item"]
               ELSE result
          [] intent = "inventory_list" ->
               result @@ [action |-> "list_inventory"]
          [] intent = "inventory_check" ->
               result @@ [action |-> "check_item"]
          [] OTHER -> result

RECURSIVE check_simple_crud_from(_, _)
check_simple_crud_from(message_lower, n) ==
    IF n > Len(simple_patterns) THEN NoResult
    ELSE LET row == simple_patterns[n]
         IN  IF \E k \in 1..Len(row.patterns) :
                    re_search(row.patterns[k], message_lower)
             THEN crud_result(row.intent, message_lower)
             ELSE check_simple_crud_from(message_lower, n + 1)

check_simple_crud(m) == check_simple_crud_from(Lower(m), 1)

-----------------------------------------------------------------------------
(* Cost Optimizer: the fuzzy gate.  A score is a fraction <<n, d>>, so that *)
(* ratios are compared exactly: 0.8 is <<4, 5>>, 0.7 is <<7, 10>>.          *)

FracGT(x, y) == x[1] * y[2] > y[1] * x[2]

\* A local that the code assigns once and reads several times is bound as
\* `CHOOSE r \in {.. local .. : local \in {value}} : TRUE`: the value is
\* computed once, when it is assigned.

\* length of the common run of a from i and b from j, within the bounds
RECURSIVE RunLength(_, _, _, _, _, _)
RunLength(a, b, i, j, ahi, bhi) ==
    IF i <= ahi /\ j <= bhi /\ a[i] = b[j]
    THEN 1 + RunLength(a, b, i + 1, j + 1, ahi, bhi)
    ELSE 0

\* SequenceMatcher.find_longest_match (no junk): the longest block, the one
\* starting earliest in a, then earliest in b
find_longest_match(a, b, alo, ahi, blo, bhi) ==
    LET Better(x, y) == \/ x[3] > y[3]
                        \/ x[3] = y[3] /\ x[1] < y[1]
                        \/ x[3] = y[3] /\ x[1] = y[1] /\ x[2] <= y[2]
    IN  CHOOSE r \in
          {IF blocks = {} THEN <<alo, blo, 0>>
           ELSE CHOOSE x \in blocks : \A y \in blocks : Better(x, y) :
             blocks \in {{<<i, j, RunLength(a, b, i, j, ahi, bhi)>> :
                             i \in alo..ahi, j \in blo..bhi}}} : TRUE

\* total size of SequenceMatcher.get_matching_blocks within the bounds
RECURSIVE matching_size(_, _, _, _, _, _)
matching_size(a, b, alo, ahi, blo, bhi) ==
    CHOOSE r \in
      {IF m[3] = 0 THEN 0
       ELSE m[3]
            + matching_size(a, b, alo, m[1] - 1, blo, m[2] - 1)
            + matching_size(a, b, m[1] + m[3], ahi, m[2] + m[3], bhi) :
         m \in {find_longest_match(a, b, alo, ahi, blo, bhi)}} : TRUE

\* SequenceMatcher(None, a, b).ratio() = 2.0 * M / T
ratio(a, b) ==
    IF Len(a) + Len(b) = 0 THEN <<1, 1>>
    ELSE <<2 * matching_size(a, b, 1, Len(a), 1, Len(b)), Len(a) + Len(b)>>

SimilarityThreshold == <<7, 10>>

\* the for/else over message_lower.split(): the ratio of the first word
\* above the threshold, <<0, 1>> with found = FALSE when there is none
RECURSIVE first_similar(_, _, _)
first_similar(keyword, words, n) ==
    IF n > Len(words) THEN [found |-> FALSE, score |-> <<0, 1>>]
    ELSE CHOOSE r \in
           {IF FracGT(similarity, SimilarityThreshold)
            THEN [found |-> TRUE, score |-> similarity]
            ELSE first_similar(keyword, words, n + 1) :
              similarity \in {ratio(keyword, words[n])}} : TRUE

pair_score(keyword, message_lower) ==
    IF Contains(keyword, message_lower)
    THEN [found |-> TRUE, score |-> <<4, 5>>]
    ELSE first_similar(keyword, Split(message_lower), 1)

\* the scan with `score >= best_score` as the overwrite test
RECURSIVE similarity_scan_overwrite_ties(_, _)
similarity_scan_overwrite_ties(message_lower, n) ==
    IF n = 0 THEN [best_match |-> None, best_score |-> <<0, 1>>]
    ELSE CHOOSE r \in
           {IF p.found /\ ~FracGT(before.best_score, p.score)
            THEN [best_match |-> intent_keywords[n].intent,
                  best_score |-> p.score]
            ELSE before :
              before \in {similarity_scan_overwrite_ties(message_lower,
                                                         n - 1)},
              p \in {pair_score(intent_keywords[n].keyword, message_lower)}}
           : TRUE

\* the scan over (intent, keyword): best_match and best_score after row n
RECURSIVE similarity_scan(_, _)
similarity_scan(message_lower, n) ==
    IF n = 0 THEN [best_match |-> None, best_score |-> <<0, 1>>]
    ELSE CHOOSE r \in
           {IF p.found /\ FracGT(p.score, before.best_score)
            THEN [best_match |-> intent_keywords[n].intent,
                  best_score |-> p.score]
            ELSE before :
              before \in {similarity_scan(message_lower, n - 1)},
              p \in {pair_score(intent_keywords[n].keyword, message_lower)}}
           : TRUE

check_semantic_similarity(m) ==
    CHOOSE r \in
      {IF Truthy(best.best_match)
          /\ FracGT(best.best_score, SimilarityThreshold)
       THEN [intent |-> best.best_match, confidence |-> best.best_score,
             exit_gate |-> "deterministic", llm_calls |-> 0,
             method |-> "semantic_similarity"]
       ELSE NoResult :
         best \in {similarity_scan(Lower(m), Len(intent_keywords))}} : TRUE

\* "hello", " Hello ", "hey", "add 3 apples to pantry", "what can I cook",
\* "xyzzy", "XYZZY", "put milk in pantry", "rcpe recip", "my list"
CostMessages ==
    {<<"p","u","t"," ","m","i","l","k"," ","i","n"," ","p","a","n","t","r","y">>,
     <<"r","c","p","e"," ","r","e","c","i","p">>,
     <<"m","y"," ","l","i","s","t">>,
     <<"h","e","l","l","o">>,
     <<" ","H","e","l","l","o"," ">>,
     <<"h","e","y">>,
     <<"a","d","d"," ","3"," ","a","p","p","l","e","s"," ","t","o"," ","p","a","n","t","r","y">>,
     <<"w","h","a","t"," ","c","a","n"," ","I"," ","c","o","o","k">>,
     <<"x","y","z","z","y">>,
     <<"X","Y","Z","Z","Y">>}

\* The three gates that read only the message, computed once per message.
message_gates ==
    [m \in CostMessages |->
        [rule  |-> check_rule_based_exit(m),
         crud  |-> check_simple_crud(m),
         fuzzy |-> check_semantic_similarity(m)]]

\* should_exit_early, cache gate first
should_exit_early_cache_first(cache, m) ==
    LET cached == check_cached_intent(cache, m)
        rule == message_gates[m].rule
        crud == message_gates[m].crud
        fuzzy == message_gates[m].fuzzy
    IN  IF Found(cached.result)
        THEN [matched |-> TRUE, result |-> cached.result,
              evaluated |-> <<"cached_intent">>, cache |-> cached.cache]
        ELSE IF Found(rule)
        THEN [matched |-> TRUE, result |-> rule,
              evaluated |-> <<"cached_intent", "rule_based">>,
              cache |-> cache]
        ELSE IF Found(crud)
        THEN [matched |-> TRUE, result |-> crud,
              evaluated |-> <<"cached_intent", "rule_based", "simple_crud">>,
              cache |-> cache]
        ELSE [matched |-> Found(fuzzy), result |-> fuzzy,
              evaluated |-> <<"cached_intent", "rule_based", "simple_crud",
                              "deterministic">>,
              cache |-> cache]

\* should_exit_early(message, kitchen_id): the (bool, Optional[Dict]) pair,
\* the gates evaluated in order, and the intent cache after the call
should_exit_early(cache, m) ==
    LET rule == message_gates[m].rule
        cached == check_cached_intent(cache, m)
        crud == message_gates[m].crud
        fuzzy == message_gates[m].fuzzy
    IN  IF Found(rule)
        THEN [matched |-> TRUE, result |-> rule,
              evaluated |-> <<"rule_based">>, cache |-> cache]
        ELSE IF Found(cached.result)
        THEN [matched |-> TRUE, result |-> cached.result,
              evaluated |-> <<"rule_based", "cached_intent">>,
              cache |-> cached.cache]
        ELSE IF Found(crud)
        THEN [matched |-> TRUE, result |-> crud,
              evaluated |-> <<"rule_based", "cached_intent", "simple_crud">>,
              cache |-> cache]
        ELSE [matched |-> Found(fuzzy), result |-> fuzzy,
              evaluated |-> <<"rule_based", "cached_intent", "simple_crud",
                              "deterministic">>,
              cache |-> cache]

-----------------------------------------------------------------------------
(* The Governor called directly: decide_next_agent on every state and      *)
(* context snapshot of a bounded set.                                      *)

Snapshot(conf, plan, er, vr, agent, op) ==
    [intent_confidence |-> conf, plan_steps |-> plan, current_step |-> 0,
     execution_result |-> er, validation_result |-> vr,
     current_agent |-> agent, operation_type |-> op]

GovConfidences == {0, 40, 69, 70, 71, 100}

\* one first step per tool_type the Governor distinguishes
GovFirstSteps ==
    {s \in Steps : DictGet(s, "operation", None) \notin
                      {"update", "create", "delete"}
                   /\ "image_data" \notin DOMAIN s}

GovPlans ==
    {<<>>} \cup {PlanOf(s, n) : s \in GovFirstSteps, n \in {1, 5, MaxPlanLen}}

IntentSnapshots ==
    {Snapshot(c, <<>>, EmptyDict, EmptyDict, None, None) : c \in GovConfidences}

PlanSnapshots ==
    {Snapshot(90, p, EmptyDict, EmptyDict, None, None) : p \in GovPlans}

ExecuteSnapshots ==
    {Snapshot(90, <<FillerStep>>, er, EmptyDict, a, op) :
        er \in {EmptyDict, [confidence |-> 60], [confidence |-> 79],
                [confidence |-> 80], [confidence |-> 92]},
        a \in {None, "ocr", "inventory", "recipe"},
        op \in {None, "read", "write"}}

ValidateSnapshots ==
    {Snapshot(90, <<FillerStep>>, EmptyDict, vr, None, None) :
        vr \in {[is_valid |-> TRUE], [is_valid |-> FALSE],
                [is_valid |-> FALSE, error_reason |-> "Bad quantity"]}}

\* snapshots tried in every state, the ones with missing keys among them
MixedSnapshots ==
    {EmptyDict,
     [plan_steps |-> PlanOf(FillerStep, MaxPlanLen)],
     Snapshot(40, PlanOf(FillerStep, MaxPlanLen), [confidence |-> 60],
              [is_valid |-> FALSE], "ocr", "write"),
     Snapshot(70, <<FillerStep>>, [confidence |-> 92],
              [is_valid |-> TRUE], "inventory", "write")}

\* <<state, context>> argument pairs of the direct decide_next_agent calls
GovArgs ==
    (MixedSnapshots \X ExecutionState)
    \cup (IntentSnapshots \X {"intent"})
    \cup (PlanSnapshots \X {"plan"})
    \cup (ExecuteSnapshots \X {"execute"})
    \cup (ValidateSnapshots \X {"validate"})

SameArgs(a, b) == a.state = b.state /\ a.context = b.context

\* A decide_next_agent variant that tightens the threshold as it goes.
GovernorDecideAdaptive ==
    /\ pc = "idle"
    /\ \E a \in GovArgs :
          LET c == a[1]
              s == a[2]
              call == [fn |-> "decide_next_agent", state |-> s, context |-> c,
                       context_after |-> c,
                       decision |-> decide_next_agent(s, c)]
          IN  /\ probe' = call
              /\ gov_first' =
                   IF gov_first = NoCall THEN call @@ [others |-> FALSE]
                   ELSE [gov_first EXCEPT
                           !.others = @ \/ ~SameArgs(call, gov_first)]
    /\ rules' = [rules EXCEPT !.require_intent_confidence = 71]
    /\ UNCHANGED <<intent_cache, request_stats, pc, message, context,
                   iteration, decision, trace, served>>
    /\ HistoryUnchanged

\* governor.decide_next_agent(s, c): reads self.rules and c, writes neither.
GovernorDecide ==
    /\ pc = "idle"
    /\ \E a \in GovArgs :
          LET c == a[1]
              s == a[2]
              call == [fn |-> "decide_next_agent", state |-> s, context |-> c,
                       context_after |-> c,
                       decision |-> decide_next_agent(s, c)]
          IN  /\ probe' = call
              /\ gov_first' =
                   IF gov_first = NoCall THEN call @@ [others |-> FALSE]
                   ELSE [gov_first EXCEPT
                           !.others = @ \/ ~SameArgs(call, gov_first)]
    /\ UNCHANGED <<rules, intent_cache, request_stats, pc, message, context,
                   iteration, decision, trace, served>>
    /\ HistoryUnchanged

GovNext == GovernorDecide

GovSpec == Init /\ [][GovNext]_vars

-----------------------------------------------------------------------------
(* The Driver's loop body and the Governor's precondition check applied to *)
(* every context and tool input of a bounded set.                          *)

Operations == {None, "read", "create", "update", "delete", "generate"}

Optional(key, values) == {EmptyDict} \cup {[k \in {key} |-> v] : v \in values}

ToolInputs ==
    {EmptyDict}
    \cup {[operation |-> op, kitchen_id |-> 1] @@ q @@ id @@ img :
            op \in Operations,
            q \in Optional("quantity", {-1, 0, 2}),
            id \in Optional("canonical_item_id", {"", "rice-1"}),
            img \in Optional("image_data", {"", "jpeg"})}

\* governor.validate_tool_preconditions(agent, tool_input)
GovernorValidate ==
    /\ pc = "idle" /\ probe = NoCall
    /\ \E agent \in AgentRole, tool_input \in ToolInputs :
          probe' = [fn |-> "validate_tool_preconditions", agent |-> agent,
                    tool_input |-> tool_input,
                    result |-> validate_tool_preconditions(agent, tool_input)]
    /\ UNCHANGED <<rules, intent_cache, request_stats, pc, message, context,
                   iteration, decision, trace, served, gov_first>>
    /\ HistoryUnchanged

ToolResult(agent, data, confidence) ==
    [agent |-> agent, success |-> TRUE, data |-> data,
     confidence |-> confidence, error_message |-> None,
     side_effects |-> <<>>, metadata |-> EmptyDict]

\* well-formed ExecutionContexts: current_step within the plan
StepContexts ==
    {[ExecutionContext(<<>>, 1, "cook@example.com") EXCEPT
        !.current_state = s, !.intent = "inventory",
        !.intent_confidence = c, !.plan_steps = p, !.current_step = n,
        !.execution_results = er, !.validation_results = vr, !.errors = e] :
      s \in ExecutionState, c \in {40, 90}, p \in Plans, n \in {0, 1},
      er \in {<<>>, <<ToolResult("ocr", [extracted_items |-> <<"Milk">>], 60)>>},
      vr \in {<<>>, <<ToolResult("validator", [is_valid |-> FALSE], 100)>>,
              <<ToolResult("validator", [is_valid |-> TRUE, errors |-> <<>>],
                           100)>>},
      e \in {<<>>, <<"earlier error">>}}

\* One pass of the loop body on a given context.
DriverStep ==
    /\ pc = "idle" /\ probe = NoCall
    /\ \E ctx \in StepContexts :
         /\ ctx.current_step <= Len(ctx.plan_steps)
         /\ LET d == decide_next_agent(ctx.current_state,
                                       build_governor_context(ctx))
            IN  \E o \in AgentOutcomes(d.allowed_agent, ctx) :
                  LET pass == loop_body(ctx, o)
                  IN  probe' = [fn |-> "loop_body", context |-> ctx,
                                outcome |-> o,
                                decision |-> pass.decision,
                                calls |-> pass.calls,
                                context_after |-> pass.context]
    /\ UNCHANGED <<rules, intent_cache, request_stats, pc, message, context,
                   iteration, decision, trace, served, gov_first>>
    /\ HistoryUnchanged

StepNext == DriverStep \/ GovernorValidate

StepSpec == Init /\ [][StepNext]_vars

-----------------------------------------------------------------------------
(* The loop of process_message past INTENT.  A fresh context has           *)
(* intent_confidence 0.0, which the Governor rejects at INTENT, so the     *)
(* passes that invoke the Planner and the tool agents are exercised by     *)
(* running the same loop on a context whose intent is already classified.  *)

ClassifiedIntents == {"inventory"}

\* the while loop of process_message entered on a classified context
EnterLoop ==
    /\ CanAccept
    /\ \E m \in Messages, k \in KitchenIds, u \in UserEmails,
          i \in ClassifiedIntents, c \in IntentConfidences :
          /\ message' = m
          /\ context' = [ExecutionContext(m, k, u) EXCEPT
                            !.intent = i, !.intent_confidence = c]
    /\ iteration' = 0
    /\ decision' = NoDecision
    /\ pc' = "loop"
    /\ trace' = NewTrace("loop")
    /\ served' = served + 1
    /\ UNCHANGED <<rules, intent_cache, request_stats>>
    /\ HarnessUnchanged

LoopNext == ProcessMessage \/ EnterLoop \/ LoopIteration \/ FinalResponse

LoopSpec == Init /\ [][LoopNext]_vars

-----------------------------------------------------------------------------
(* The Cost Optimizer called directly: cache_intent and should_exit_early  *)
(* in any order on one CostOptimizer instance.                             *)

\* entries the intent cache may hold
MaxCacheEntries == 2

CostIntents == {"greeting", "recipe"}

CostConfidences == {100}

\* cost_optimizer.cache_intent(m, intent, confidence)
CacheIntent ==
    /\ pc = "idle"
    /\ \E m \in CostMessages, intent \in CostIntents,
          confidence \in CostConfidences :
          LET after == cache_intent(intent_cache, m, intent, confidence)
          IN  /\ Cardinality(DOMAIN after) <= MaxCacheEntries
              /\ intent_cache' = after
              /\ probe' = [fn |-> "cache_intent", message |-> m,
                           intent |-> intent, confidence |-> confidence,
                           cache_before |-> intent_cache]
    /\ UNCHANGED <<rules, request_stats, pc, message, context, iteration,
                   decision, trace, served, gov_first>>
    /\ HistoryUnchanged

\* cost_optimizer.should_exit_early(m, kitchen_id)
ShouldExitEarly ==
    /\ pc = "idle"
    /\ \E m \in CostMessages :
          LET r == should_exit_early(intent_cache, m)
          IN  /\ intent_cache' = r.cache
              /\ probe' = [fn |-> "should_exit_early", message |-> m,
                           matched |-> r.matched, result |-> r.result,
                           evaluated |-> r.evaluated,
                           cache_before |-> intent_cache]
    /\ UNCHANGED <<rules, request_stats, pc, message, context, iteration,
                   decision, trace, served, gov_first>>
    /\ HistoryUnchanged

CostNext == CacheIntent \/ ShouldExitEarly

CostSpec == Init /\ [][CostNext]_vars

-----------------------------------------------------------------------------
(* The fuzzy gate's scan, one (intent, keyword) pair at a time.            *)

\* best_match = None, best_score = 0.0, before the first pair
ScanStart ==
    /\ pc = "idle" /\ probe = NoCall
    /\ \E m \in CostMessages :
          probe' = [fn |-> "similarity_scan", message |-> m, row |-> 0]
                   @@ similarity_scan(Lower(m), 0)
    /\ UNCHANGED <<rules, intent_cache, request_stats, pc, message, context,
                   iteration, decision, trace, served, gov_first>>
    /\ HistoryUnchanged

\* one pass of the inner for loop: the next (intent, keyword) pair
ScanStep ==
    /\ probe.fn = "similarity_scan"
    /\ probe.row < Len(intent_keywords)
    /\ probe' = [fn |-> "similarity_scan", message |-> probe.message,
                 row |-> probe.row + 1]
                @@ similarity_scan(Lower(probe.message), probe.row + 1)
    /\ UNCHANGED <<rules, intent_cache, request_stats, pc, message, context,
                   iteration, decision, trace, served, gov_first>>
    /\ HistoryUnchanged

ScanNext == ScanStart \/ ScanStep

ScanSpec == Init /\ [][ScanNext]_vars

-----------------------------------------------------------------------------
(* Conversation history.  SmartPantryAgent.process_message                 *)
(* (smart_pantry_agent.py) and MemoryManager.add_interaction               *)
(* (core/memory/memory_manager.py) record an exchange in a per-user list   *)
(* with the same statements: create the list when the user has none,       *)
(* append, trim to the last 10.  Requests are served by several threads,   *)
(* and a thread switch can fall between any two statements and between the *)
(* subscript and the method call of one statement.  A list is a record     *)
(* [id, items]: `id` names the list object, so that an append through a    *)
(* reference taken before another thread stored a new list goes to the     *)
(* replaced object and is not seen through the dict.  An exchange is       *)
(* represented by its number in the order of recording.                    *)

\* history-recording calls made in all
MaxCalls == 12

\* self.max_short_term = 10, and the literal 10 of SmartPantryAgent
max_short_term == 10

HistoryKinds == {"process_message", "add_interaction"}

\* lst[-n:]
LastN(lst, n) ==
    IF Len(lst) <= n THEN lst ELSE SubSeq(lst, Len(lst) - n + 1, Len(lst))

\* the trim keeping one entry more
keep_recent_eleven(items) == LastN(items, max_short_term + 1)

\* self.chat_history[user_email][-10:]
keep_recent(items) == LastN(items, max_short_term)

Busy(w) == recorders[w].pc # "idle"

MainUnchanged ==
    UNCHANGED <<rules, intent_cache, request_stats, pc, message, context,
                iteration, decision, trace, served, probe, gov_first>>

\* a thread enters process_message / add_interaction; one MemoryManager or
\* SmartPantryAgent instance is exercised throughout
BeginRecord(w) ==
    /\ ~Busy(w)
    /\ recorded.calls < MaxCalls
    /\ \E kind \in HistoryKinds, user \in UserEmails :
          /\ recorded.kind \in {None, kind}
          /\ recorders' = [recorders EXCEPT
                             ![w] = [pc |-> "test", user |-> user]]
          /\ recorded' = [recorded EXCEPT
                            !.kind = kind,
                            !.calls = @ + 1,
                            !.overlapped =
                                @ \/ \E v \in Workers \ {w} : Busy(v)]
    /\ UNCHANGED chat_history
    /\ MainUnchanged

\* if user_email not in self.chat_history
TestUser(w) ==
    /\ recorders[w].pc = "test"
    /\ recorders' = [recorders EXCEPT
                       ![w].pc = IF recorders[w].user \in DOMAIN chat_history
                                 THEN "chat" ELSE "create"]
    /\ UNCHANGED <<chat_history, recorded>>
    /\ MainUnchanged

\* self.chat_history[user_email] = []
CreateHistory(w) ==
    /\ recorders[w].pc = "create"
    /\ chat_history' = DictPut(chat_history, recorders[w].user,
                               [id |-> recorded.lists + 1, items |-> <<>>])
    /\ recorded' = [recorded EXCEPT !.lists = @ + 1]
    /\ recorders' = [recorders EXCEPT ![w].pc = "chat"]
    /\ MainUnchanged

\* response = self.gemini.chat(...); process_message returns without
\* recording when it is empty.  add_interaction is given the response.
Chat(w) ==
    /\ recorders[w].pc = "chat"
    /\ \E response \in {"", "text"} :
          recorders' = [recorders EXCEPT
                          ![w] = IF recorded.kind = "process_message"
                                    /\ response = ""
                                 THEN IdleRecorder
                                 ELSE [@ EXCEPT !.pc = "subscript"]]
    /\ UNCHANGED <<chat_history, recorded>>
    /\ MainUnchanged

\* self.chat_history[user_email] of the append statement
Subscript(w) ==
    /\ recorders[w].pc = "subscript"
    /\ recorders' = [recorders EXCEPT
                       ![w] = [pc |-> "append", user |-> @.user,
                               ref |-> chat_history[@.user].id]]
    /\ UNCHANGED <<chat_history, recorded>>
    /\ MainUnchanged

\* .append({...}) on the list the subscript returned
AppendExchange(w) ==
    /\ recorders[w].pc = "append"
    /\ LET user == recorders[w].user
           current == chat_history[user]
       IN  chat_history' =
             IF current.id = recorders[w].ref
             THEN DictPut(chat_history, user,
                          [current EXCEPT
                             !.items = Append(@, recorded.exchanges + 1)])
             ELSE chat_history
    /\ recorded' = [recorded EXCEPT !.exchanges = @ + 1]
    /\ recorders' = [recorders EXCEPT
                       ![w] = [pc |-> "check", user |-> @.user]]
    /\ MainUnchanged

\* if len(self.chat_history[user_email]) > 10
CheckLength(w) ==
    /\ recorders[w].pc = "check"
    /\ recorders' = [recorders EXCEPT
                       ![w] = IF Len(chat_history[@.user].items)
                                    > max_short_term
                              THEN [@ EXCEPT !.pc = "slice"]
                              ELSE IdleRecorder]
    /\ UNCHANGED <<chat_history, recorded>>
    /\ MainUnchanged

\* self.chat_history[user_email][-10:], the right-hand side of the trim
SliceHistory(w) ==
    /\ recorders[w].pc = "slice"
    /\ recorders' = [recorders EXCEPT
                       ![w] = [pc |-> "store", user |-> @.user,
                               tmp |-> keep_recent(
                                          chat_history[@.user].items)]]
    /\ UNCHANGED <<chat_history, recorded>>
    /\ MainUnchanged

\* self.chat_history[user_email] = <the slice>
StoreHistory(w) ==
    /\ recorders[w].pc = "store"
    /\ chat_history' = DictPut(chat_history, recorders[w].user,
                               [id |-> recorded.lists + 1,
                                items |-> recorders[w].tmp])
    /\ recorded' = [recorded EXCEPT !.lists = @ + 1]
    /\ recorders' = [recorders EXCEPT ![w] = IdleRecorder]
    /\ MainUnchanged

HistoryNext ==
    \E w \in Workers :
        \/ BeginRecord(w) \/ TestUser(w) \/ CreateHistory(w) \/ Chat(w)
        \/ Subscript(w) \/ AppendExchange(w) \/ CheckLength(w)
        \/ SliceHistory(w) \/ StoreHistory(w)

HistorySpec == Init /\ [][HistoryNext]_vars

-----------------------------------------------------------------------------
(* Properties of the State Machine Driver *)

\* the request reached AgentStateMachine.process_message and it has ended
BaseDone == pc = "done" /\ trace.base

CallRoles == {trace.calls[i].role : i \in 1..Len(trace.calls)}

AllCallsOk == \A i \in 1..Len(trace.calls) : trace.calls[i].ok

\* C1: whatever the agents do, the loop of process_message makes at most 10
\* passes (at most 10 Governor decisions, at most 10 assignments to
\* current_state), it is left with current_state = RESPOND or after the
\* 10th pass, and a loop that was entered is always left.
C1_BoundedTermination ==
    /\ [](/\ iteration <= 10
          /\ trace.decisions <= 10
          /\ trace.assignments <= 10
          /\ trace.base => (trace.decisions = iteration
                            /\ trace.assignments = iteration)
          /\ BaseDone => (context.current_state = "respond"
                          \/ iteration = 10))
    /\ ((pc = "loop") ~> (pc = "done"))

\* C1 witness: a run that used all 10 passes and left the loop in ERROR
C1_Witness ==
    BaseDone /\ iteration = 10 /\ context.current_state = "error"
    /\ trace.decisions = 10

\* C2: no fault raised by a Capability Agent escapes
\* AgentStateMachine.process_message; it always returns a reply.
C2_NoFaultEscapes == trace.base => trace.status # "raised"

\* C3: when errors is non-empty at the end of the loop, the run ends in
\* ERROR and the reply is the Responder's text for execution_state "error"
\* with the last error as reason, never the "success" reply.
C3_ErrorsEndInError ==
    (BaseDone /\ Len(context.errors) > 0) =>
        /\ context.current_state = "error"
        /\ Len(trace.calls) > 0
        /\ Last(trace.calls).role = "responder"
        /\ Last(trace.calls).input.execution_state = "error"
        /\ DictGet(Last(trace.calls).input.context, "error_reason", None)
              = Last(context.errors)

\* C4: when every agent call succeeds, the Intent agent is invoked with the
\* message and its result sets intent and intent_confidence, and with a
\* confidence of at least 0.7 the Planner is invoked before the final
\* Responder call.
C4_IntentThenPlanner ==
    (BaseDone /\ AllCallsOk) =>
        /\ \E i \in 1..Len(trace.calls) :
              /\ trace.calls[i].role = "intent"
              /\ trace.calls[i].input = [message |-> message]
        /\ context.intent # None
        /\ context.intent_confidence >= 70 => "planner" \in CallRoles

-----------------------------------------------------------------------------
(* Properties of the Governor and of one pass of the loop *)

IsStep == probe.fn = "loop_body"

IsValidate == probe.fn = "validate_tool_preconditions"

IsDecide == probe.fn = "decide_next_agent"

\* C5: with more than 5 plan steps the Governor rejects at PLAN with
\* "Exceeds max plan steps", and no pass of the loop invokes the INVENTORY,
\* OCR or RECIPE agent while plan_steps has more than 5 entries.
C5_PlanSizeInvariant ==
    (IsStep /\ Len(probe.context.plan_steps) > 5) =>
        /\ probe.context.current_state = "plan" =>
              /\ ~probe.decision.preconditions_met
              /\ probe.decision.reject_reason = "Exceeds max plan steps"
        /\ \A i \in 1..Len(probe.calls) : probe.calls[i].role \notin ToolRoles

\* C5 witness: a 6-step inventory plan at PLAN is rejected, nothing is called
C5_Witness ==
    /\ IsStep
    /\ probe.context.current_state = "plan"
    /\ Len(probe.context.plan_steps) = 6
    /\ DictGet(probe.context.plan_steps[1], "tool_type", None) = "inventory"
    /\ ~probe.decision.preconditions_met
    /\ probe.calls = <<>>
    /\ Last(probe.context_after.errors) = "Exceeds max plan steps"

RecipeWrites == {"create", "update", "delete"}

\* C6: validate_tool_preconditions(RECIPE, input) is false exactly for the
\* inputs whose operation is create, update or delete, and no pass of the
\* loop calls the Recipe agent with such an input.
C6_RecipeReadOnly ==
    /\ (IsValidate /\ probe.agent = "recipe") =>
          (probe.result <=>
             DictGet(probe.tool_input, "operation", None) \notin RecipeWrites)
    /\ IsStep =>
          \A i \in 1..Len(probe.calls) :
              probe.calls[i].role = "recipe" =>
                  DictGet(probe.calls[i].input, "operation", None)
                      \notin RecipeWrites

\* C6 witness: a plan whose step is a recipe update reaches the Recipe role,
\* the check on the built input fails and the agent is not called
C6_Witness ==
    /\ IsStep
    /\ probe.decision.allowed_agent = "recipe"
    /\ probe.decision.preconditions_met
    /\ DictGet(agent_input("recipe", probe.context), "operation", None)
          = "update"
    /\ probe.calls = <<>>
    /\ probe.context_after.current_state = "error"
    /\ Last(probe.context_after.errors) = "Preconditions not met for recipe"

C10_IntentThreshold ==
    (IsDecide /\ probe.state = "intent") =>
        IF DictGet(probe.context, "intent_confidence", 0) < 70
        THEN /\ ~probe.decision.preconditions_met
             /\ probe.decision.reject_reason = "Low intent confidence"
             /\ probe.decision.state = "respond"
        ELSE /\ probe.decision.preconditions_met
             /\ probe.decision.allowed_agent = "planner"
             /\ probe.decision.state = "plan"

\* C10 witness: a confidence of exactly 0.7 goes on to the Planner
C10_Witness ==
    /\ IsDecide /\ probe.state = "intent"
    /\ probe.context # EmptyDict
    /\ DictGet(probe.context, "intent_confidence", 0) = 70
    /\ probe.decision.allowed_agent = "planner"
    /\ probe.decision.preconditions_met

-----------------------------------------------------------------------------
(* Properties of the Cost Optimizer *)

IsExit == probe.fn = "should_exit_early"

IsCacheIntent == probe.fn = "cache_intent"

GateOrder == <<"rule_based", "cached_intent", "simple_crud", "deterministic">>

\* does gate n match message m, given the cache the call started from
GateMatches(n, cache, m) ==
    CASE n = 1 -> Strip(Lower(m)) \in ExactMatchKeys
      [] n = 2 -> Lower(m) \in DOMAIN cache
      [] n = 3 -> Found(message_gates[m].crud)
      [] OTHER -> Found(message_gates[m].fuzzy)

\* C7: should_exit_early checks rule-based, cached intent, simple CRUD and
\* fuzzy similarity in that order; the result carries the first gate that
\* matches and no later gate is evaluated (a rule-based match leaves the
\* cached entry untouched); with no match it returns (false, none).
C7_GatePriority ==
    IsExit =>
        LET hits == {n \in 1..4 :
                        GateMatches(n, probe.cache_before, probe.message)}
        IN  IF hits = {}
            THEN /\ ~probe.matched
                 /\ probe.result = NoResult
                 /\ probe.evaluated = GateOrder
                 /\ intent_cache = probe.cache_before
            ELSE /\ probe.matched
                 /\ probe.result.exit_gate = GateOrder[SetMin(hits)]
                 /\ probe.evaluated = SubSeq(GateOrder, 1, SetMin(hits))
                 /\ SetMin(hits) # 2 => intent_cache = probe.cache_before

\* C7 witness: "hello" is cached and matches a CRUD-free rule; it is
\* answered by the rule-based gate and the cached entry is not touched
C7_Witness ==
    /\ IsExit
    /\ probe.message = <<"h","e","l","l","o">>
    /\ <<"h","e","l","l","o">> \in DOMAIN probe.cache_before
    /\ probe.matched
    /\ probe.result.exit_gate = "rule_based"
    /\ probe.result.intent = "greeting"
    /\ intent_cache = probe.cache_before

SameCacheArgs(a, b) ==
    /\ a.message = b.message
    /\ a.intent = b.intent
    /\ a.confidence = b.confidence

\* a second cache_intent with the arguments of the call just made leaves
\* the cache as that call left it, with one entry for the message
CacheIntentIdempotent ==
    (IsCacheIntent /\ IsCacheIntent' /\ SameCacheArgs(probe, probe')) =>
        /\ intent_cache' = intent_cache
        /\ intent_cache'[message_hash(probe.message)] =
              [intent |-> probe.intent, confidence |-> probe.confidence,
               cached |-> TRUE]

\* should_exit_early(m) right after cache_intent(m, ...) answers from the
\* cache with the intent just cached
AnsweredFromCache ==
    /\ IsExit'
    /\ probe'.matched
    /\ probe'.result.exit_gate = "cached_intent"
    /\ probe'.result.intent = probe.intent

SubsequentExit == IsCacheIntent /\ IsExit' /\ probe'.message = probe.message

\* C8 as stated: cache_intent(m, intent, confidence) twice leaves the cache
\* as one call does, and a subsequent should_exit_early(m) reports gate
\* CACHED_INTENT with the cached intent, for every message m.
C8_AsStated ==
    [][/\ CacheIntentIdempotent
       /\ SubsequentExit => AnsweredFromCache]_vars

\* C8: cache_intent(m, intent, confidence) twice leaves the cache as one
\* call does, with exactly one entry for m; a subsequent should_exit_early(m)
\* reports gate CACHED_INTENT with the cached intent unless the trimmed,
\* lower-cased m is an exact-match utterance, which stays RULE_BASED.
C8_CacheIdempotence ==
    [][/\ CacheIntentIdempotent
       /\ SubsequentExit =>
             IF Strip(Lower(probe.message)) \in ExactMatchKeys
             THEN probe'.result.exit_gate = "rule_based"
             ELSE AnsweredFromCache]_vars

\* C8 witness: "XYZZY" was cached as recipe under the key of "xyzzy" and is
\* then answered from the cache as recipe, the cache holding one entry
C8_Witness ==
    /\ IsExit
    /\ probe.message = <<"X","Y","Z","Z","Y">>
    /\ probe.matched
    /\ probe.result.exit_gate = "cached_intent"
    /\ probe.result.intent = "recipe"
    /\ Cardinality(DOMAIN intent_cache) = 1
    /\ intent_cache[message_hash(probe.message)].intent = "recipe"

-----------------------------------------------------------------------------
(* Properties of the Governor's routing after INTENT *)

SnapshotAgent == DictGet(probe.context, "current_agent", None)

SnapshotConfidence ==
    DictGet(DictGet(probe.context, "execution_result", EmptyDict),
            "confidence", 0)

NeedsValidation ==
    \/ SnapshotAgent = "ocr" /\ SnapshotConfidence < 80
    \/ /\ SnapshotAgent = "inventory"
       /\ DictGet(probe.context, "operation_type", None) = "write"

\* C11: at EXECUTE the Governor returns VALIDATOR with next state VALIDATE
\* when current_agent is OCR and the latest result's confidence is < 0.8, or
\* when current_agent is INVENTORY and operation_type is "write"; otherwise
\* RESPONDER with next state RESPOND; preconditions_met is true throughout.
C11_ExecuteRouting ==
    (IsDecide /\ probe.state = "execute") =>
        /\ probe.decision.preconditions_met
        /\ IF NeedsValidation
           THEN /\ probe.decision.allowed_agent = "validator"
                /\ probe.decision.state = "validate"
           ELSE /\ probe.decision.allowed_agent = "responder"
                /\ probe.decision.state = "respond"

\* C11 witness: OCR with a confidence of exactly 0.8 goes to the Responder
C11_Witness ==
    /\ IsDecide /\ probe.state = "execute"
    /\ SnapshotAgent = "ocr"
    /\ SnapshotConfidence = 80
    /\ probe.decision.allowed_agent = "responder"
    /\ probe.decision.state = "respond"

LastExecution == Last(probe.context.execution_results)

\* C12: for a context at EXECUTE whose most recent execution result came
\* from the OCR agent with confidence < 0.8, the decision the Driver obtains
\* from the Governor selects VALIDATOR with next state VALIDATE, so the
\* Validator is invoked in that pass and not the Responder.
C12_LowOcrValidated ==
    (/\ IsStep
     /\ probe.context.current_state = "execute"
     /\ Len(probe.context.execution_results) > 0
     /\ LastExecution.agent = "ocr"
     /\ LastExecution.confidence < 80) =>
        /\ probe.decision.allowed_agent = "validator"
        /\ probe.decision.state = "validate"
        /\ \A i \in 1..Len(probe.calls) : probe.calls[i].role # "responder"

SnapshotPlan == DictGet(probe.context, "plan_steps", <<>>)

FirstToolType ==
    IF SnapshotPlan = <<>> THEN None
    ELSE DictGet(SnapshotPlan[1], "tool_type", None)

\* C13: at PLAN with at most 5 plan steps the Governor returns RESPONDER with
\* next state RESPOND when the first step's tool_type is greeting or help;
\* otherwise next state EXECUTE with INVENTORY, OCR or RECIPE for tool_type
\* inventory, ocr or recipe and RESPONDER for any other tool_type or an empty
\* plan; preconditions_met is true and only plan_steps[0] decides.
C13_PlanRouting ==
    (IsDecide /\ probe.state = "plan" /\ Len(SnapshotPlan) <= 5) =>
        /\ probe.decision.preconditions_met
        /\ IF FirstToolType \in {"greeting", "help"}
           THEN /\ probe.decision.allowed_agent = "responder"
                /\ probe.decision.state = "respond"
           ELSE /\ probe.decision.state = "execute"
                /\ probe.decision.allowed_agent =
                      IF FirstToolType \in {"inventory", "ocr", "recipe"}
                      THEN FirstToolType ELSE "responder"

\* C13 witness: a step without tool_type followed by four inventory steps
\* is sent to the Responder with next state EXECUTE
C13_Witness ==
    /\ IsDecide /\ probe.state = "plan"
    /\ Len(SnapshotPlan) = 5
    /\ "tool_type" \notin DOMAIN SnapshotPlan[1]
    /\ SnapshotPlan[2].tool_type = "inventory"
    /\ probe.decision.allowed_agent = "responder"
    /\ probe.decision.state = "execute"
    /\ probe.decision.preconditions_met

-----------------------------------------------------------------------------
(* Properties of the tool preconditions and of the loop body *)

InputOperation == DictGet(probe.tool_input, "operation", None)

BadUpdate ==
    /\ InputOperation = "update"
    /\ \/ DictGet(probe.tool_input, "quantity", 0) < 0
       \/ DictGet(probe.tool_input, "canonical_item_id", None) \in {None, ""}

NoImage == DictGet(probe.tool_input, "image_data", None) \in {None, ""}

\* C14: outside the RECIPE role validate_tool_preconditions is false exactly
\* for INVENTORY with operation "update" and a negative quantity or an
\* absent or empty canonical_item_id, and for OCR with absent or empty
\* image_data; it is true for every other INVENTORY input and for every
\* input of INTENT, PLANNER, VALIDATOR and RESPONDER.
C14_ToolPreconditions ==
    (IsValidate /\ probe.agent # "recipe") =>
        (probe.result <=>
            ~(\/ probe.agent = "inventory" /\ BadUpdate
              \/ probe.agent = "ocr" /\ NoImage))

\* C14 witness: an update with a valid quantity and an empty
\* canonical_item_id is refused
C14_Witness ==
    /\ IsValidate /\ probe.agent = "inventory"
    /\ InputOperation = "update"
    /\ DictGet(probe.tool_input, "quantity", 0) = 2
    /\ DictGet(probe.tool_input, "canonical_item_id", None) = ""
    /\ ~probe.result

-----------------------------------------------------------------------------
(* Properties of the Optimized Driver *)

\* the request entered through OptimizedStateMachine.process_message
Optimized == trace.entry = "optimized"

OptimizedDone == Optimized /\ pc = "done"

\* C15: no fault escapes OptimizedStateMachine.process_message: whatever the
\* Intent agent does and whichever intent it returns, the call ends by
\* returning a reply.
C15_OptimizedAlwaysReplies == OptimizedDone => trace.status = "returned"

NormalizedMessage == Strip(Lower(message))

ExactGreeting ==
    NormalizedMessage \in {<<"h","e","l","l","o">>, <<"h","i">>,
                           <<"h","e","y">>}

\* C16: a message whose trimmed, lower-cased form is hello, hi or hey is
\* answered by OptimizedStateMachine.process_message with the canned
\* greeting, without any Capability Agent call, Governor decision or pass of
\* the base loop.
C16_GreetingFastPath ==
    (Optimized /\ ExactGreeting) =>
        /\ pc = "done"
        /\ trace.status = "returned"
        /\ trace.reply = [source |-> "canned", text |-> "greeting"]
        /\ trace.calls = <<>>
        /\ trace.decisions = 0
        /\ ~trace.base

\* C16 witness: "Hello " is trimmed and lower-cased, then answered directly,
\* after an earlier request that did go through the Intent agent
C16_Witness ==
    /\ Optimized /\ pc = "done"
    /\ message = <<"H","e","l","l","o"," ">>
    /\ trace.reply = [source |-> "canned", text |-> "greeting"]
    /\ trace.calls = <<>>
    /\ request_stats.early_exits = 1
    /\ request_stats.llm_calls = 1

IntentCalls == {i \in 1..Len(trace.calls) : trace.calls[i].role = "intent"}

\* what the optimized driver's Intent call returned
Classification == trace.calls[1].output

Classified ==
    /\ trace.calls[1].ok
    /\ DictGet(Classification.data, "intent", None) \notin {None, ""}

FallsBack ==
    \/ DictGet(Classification.data, "confidence", 0) <= 50
    \/ Classification.data.intent = "recipe"

\* C17: for a non-greeting message the optimized driver invokes the Intent
\* agent exactly once; when it classifies with a non-empty intent the base
\* loop is entered if and only if confidence <= 0.5 or the intent is
\* recipe, and for every other intent with confidence > 0.5 the reply comes
\* from the direct formatter with no Governor, Planner or Validator call.
C17_DirectDispatch ==
    (Optimized /\ ~ExactGreeting) =>
        /\ Cardinality(IntentCalls) = 1
        /\ trace.calls[1].role = "intent"
        /\ trace.calls[1].input = [message |-> message]
        /\ Classified =>
              /\ trace.base <=> FallsBack
              /\ ~FallsBack =>
                    /\ pc = "done"
                    /\ trace.status = "returned"
                    /\ trace.reply.source = "direct"
                    /\ trace.decisions = 0
                    /\ CallRoles = {"intent"}

\* a step that is a call of OptimizedStateMachine.process_message
OptimizedRequest == served' = served + 1 /\ trace'.entry = "optimized"

\* C18: a request to OptimizedStateMachine.process_message passes the Cost
\* Optimizer's exit gates before any agent is invoked: once a message's
\* intent has been cached, a later request with the same message is
\* answered from the cache, without an Intent agent call.
C18_CachedSkipsIntent ==
    [][(OptimizedRequest /\ message_hash(message') \in DOMAIN intent_cache)
          => \A i \in 1..Len(trace'.calls) :
                trace'.calls[i].role # "intent"]_vars

-----------------------------------------------------------------------------
(* Properties of one pass of the loop: failures *)

Before == probe.context

After == probe.context_after

ChosenInput == agent_input(probe.decision.allowed_agent, Before)

Rejected == ~probe.decision.preconditions_met

PreconditionFailed ==
    /\ probe.decision.preconditions_met
    /\ ~validate_tool_preconditions(probe.decision.allowed_agent, ChosenInput)

ExecuteRaised ==
    /\ probe.decision.preconditions_met
    /\ validate_tool_preconditions(probe.decision.allowed_agent, ChosenInput)
    /\ probe.outcome.kind = "raise"

ResultsUnchanged ==
    /\ After.intent = Before.intent
    /\ After.plan_steps = Before.plan_steps
    /\ After.current_step = Before.current_step
    /\ After.execution_results = Before.execution_results
    /\ After.validation_results = Before.validation_results

ExecuteFailed ==
    /\ probe.decision.preconditions_met
    /\ validate_tool_preconditions(probe.decision.allowed_agent, ChosenInput)
    /\ probe.outcome.kind = "return"
    /\ ~probe.outcome.success

\* C20: when an agent's execute returns success=false the Driver appends its
\* error_message to errors, changes no other context field, and sets
\* current_state to the decision's next state, not to ERROR.
C20_FailureFrame ==
    (IsStep /\ ExecuteFailed) =>
        /\ Len(probe.calls) = 1
        /\ After.errors = Append(Before.errors, probe.outcome.error_message)
        /\ After.current_state = probe.decision.state
        /\ After = [Before EXCEPT !.errors = After.errors,
                                  !.current_state = After.current_state]

\* C20 witness: the Inventory agent fails at PLAN; the error is recorded and
\* the run moves on to EXECUTE with nothing else changed
C20_Witness ==
    /\ IsStep /\ ExecuteFailed
    /\ probe.decision.allowed_agent = "inventory"
    /\ Before.current_state = "plan"
    /\ After.current_state = "execute"
    /\ Last(After.errors) = "agent failed"
    /\ After.metadata = Before.metadata
    /\ After.current_step = Before.current_step

-----------------------------------------------------------------------------
(* Properties of a whole run of the loop *)

\* calls made before the loop was entered: the optimized driver's Intent call
CallsBeforeLoop == IF trace.entry = "optimized" THEN 1 ELSE 0

\* while the loop runs, the calls it has made so far
LoopCalls == {i \in 1..Len(trace.calls) : i > CallsBeforeLoop}

\* C21: within one run no agent call is retried: once a call of a role has
\* raised or returned success=false, the loop does not invoke that role
\* again, the Responder selected from state ERROR included.
C21_NoRetry ==
    (pc = "loop" /\ trace.base) =>
        \A i \in LoopCalls, j \in LoopCalls :
            (i < j /\ ~trace.calls[i].ok) =>
                trace.calls[j].role # trace.calls[i].role

LastValidation == Last(probe.context.validation_results)

\* what the latest Validator result reports
ReportsValid == DictGet(LastValidation.data, "is_valid", FALSE)

\* C22: for a context at VALIDATE whose latest Validator result reports
\* is_valid=true the decision the Driver obtains is RESPONDER with next
\* state RESPOND and preconditions_met=true; only a result reporting
\* is_valid=false yields next state ERROR with a reject_reason.
C22_ValidRouting ==
    (/\ IsStep
     /\ probe.context.current_state = "validate"
     /\ Len(probe.context.validation_results) > 0) =>
        IF ReportsValid
        THEN /\ probe.decision.allowed_agent = "responder"
             /\ probe.decision.state = "respond"
             /\ probe.decision.preconditions_met
        ELSE /\ probe.decision.state = "error"
             /\ ~probe.decision.preconditions_met
             /\ Truthy(probe.decision.reject_reason)

\* C23: in every state of a run 0 <= current_step <= len(plan_steps): the
\* Planner's fold resets current_step to 0 and a tool agent's successful
\* result increments it only within the plan length, for every plan the
\* Planner can return, the empty plan included.
C23_StepWithinPlan ==
    /\ 0 <= context.current_step
    /\ context.current_step <= Len(context.plan_steps)

\* C23 witness: the last step of a one-step plan has been executed, so
\* current_step has reached the plan length
C23_Witness ==
    /\ pc = "loop"
    /\ Len(context.plan_steps) = 1
    /\ context.current_step = 1
    /\ Len(context.execution_results) = 1
    /\ \E i \in LoopCalls : trace.calls[i].role = "planner"

ResultKey(role) == role \o "_result"

\* C24: at every point of a run, metadata holds the entry "<role>_result"
\* for each agent role the loop has invoked so far, the roles whose call
\* returned success=false included.
C24_MetadataPerRole ==
    pc = "loop" =>
        \A i \in LoopCalls :
            ResultKey(trace.calls[i].role) \in DOMAIN context.metadata

-----------------------------------------------------------------------------
(* Properties of the Cost Optimizer: cache entries and the pattern gates *)

EntryFields == {"intent", "confidence", "cached"}

\* the entry under key h is kept by the step, with its intent and confidence
EntryKept(h) ==
    /\ h \in DOMAIN intent_cache'
    /\ intent_cache'[h].intent = intent_cache[h].intent
    /\ intent_cache'[h].confidence = intent_cache[h].confidence

\* C25: an intent-cache entry, once it exists, is immutable and permanent:
\* no cache_intent or should_exit_early call, a cache_intent for the same
\* message with another intent and a cache hit included, changes its
\* intent, its confidence or its set of fields {intent, confidence, cached}
\* or removes it.
C25_CacheImmutable ==
    [][\A h \in DOMAIN intent_cache :
          /\ EntryKept(h)
          /\ DOMAIN intent_cache'[h] = EntryFields]_vars

\* the lower-cased message of the last should_exit_early call
ProbeLower == Lower(probe.message)

\* rows of simple_patterns with a pattern that matches the message
MatchingRows ==
    {n \in 1..Len(simple_patterns) :
        \E k \in 1..Len(simple_patterns[n].patterns) :
            re_search(simple_patterns[n].patterns[k], ProbeLower)}

AnsweredByCrud == IsExit /\ probe.matched /\ probe.result.exit_gate = "simple_crud"

\* C26: the simple-CRUD gate returns the first intent, in the table's order,
\* with a pattern matching the lower-cased message, with confidence 0.95 and
\* gate SIMPLE_CRUD; whenever that intent is inventory_add the result
\* carries the quantity parsed by `add (\d+)` and action "add_item", and for
\* inventory_list it carries action "list_inventory".
C26_SimpleCrud ==
    AnsweredByCrud =>
        /\ MatchingRows # {}
        /\ probe.result.intent = simple_patterns[SetMin(MatchingRows)].intent
        /\ probe.result.confidence = 95
        /\ probe.result.intent = "inventory_add" =>
              /\ DictGet(probe.result, "action", None) = "add_item"
              /\ "quantity" \in DOMAIN probe.result
        /\ ProbeLower = <<"a","d","d"," ","3"," ","a","p","p","l","e","s"," ",
                          "t","o"," ","p","a","n","t","r","y">> =>
              /\ probe.result.intent = "inventory_add"
              /\ DictGet(probe.result, "quantity", None) = 3
        /\ probe.result.intent = "inventory_list" =>
              DictGet(probe.result, "action", None) = "list_inventory"

FracEQ(x, y) == x[1] * y[2] = y[1] * x[2]

FracGE(x, y) == x[1] * y[2] >= y[1] * x[2]

\* the largest of a non-empty set of fractions
FracMax(S) == CHOOSE x \in S : \A y \in S : FracGE(x, y)

\* the score the fuzzy gate is described to give a keyword: 0.8 for a
\* literal substring, else the largest ratio against a word of the message
\* when that exceeds 0.7; the empty set when the pair has no score
DescribedScores(keyword, message_lower) ==
    IF Contains(keyword, message_lower) THEN {<<4, 5>>}
    ELSE LET words == Split(message_lower)
             ratios == {ratio(keyword, words[i]) : i \in 1..Len(words)}
         IN  IF ratios # {} /\ FracGT(FracMax(ratios), SimilarityThreshold)
             THEN {FracMax(ratios)}
             ELSE {}

\* the described scores of all (intent, keyword) pairs, per message
described_scores ==
    [m \in CostMessages |->
        UNION {DescribedScores(intent_keywords[n].keyword, Lower(m)) :
                 n \in 1..Len(intent_keywords)}]

FuzzyEvaluated == IsExit /\ probe.evaluated = GateOrder

\* C27: in the fuzzy gate a pair scores 0.8 when the keyword is a substring
\* of the lower-cased message and otherwise the maximum similarity ratio of
\* the keyword against a word of the message, counted only above 0.7; the
\* gate accepts only when the best score over all pairs is > 0.7 and then
\* reports that best score as confidence with gate DETERMINISTIC.
C27_FuzzyScore ==
    FuzzyEvaluated =>
        LET scores == described_scores[probe.message]
        IN  IF scores # {} /\ FracGT(FracMax(scores), SimilarityThreshold)
            THEN /\ probe.matched
                 /\ probe.result.exit_gate = "deterministic"
                 /\ FracEQ(probe.result.confidence, FracMax(scores))
            ELSE ~probe.matched

IsScan == probe.fn = "similarity_scan"

\* the score the scan gives row n for the message being scanned
RowScore(n) == pair_score(intent_keywords[n].keyword, Lower(probe.message))

\* rows whose score is the highest of all rows that have one
TopRows ==
    {n \in 1..Len(intent_keywords) :
        /\ RowScore(n).found
        /\ \A k \in 1..Len(intent_keywords) :
              RowScore(k).found => FracGE(RowScore(n).score, RowScore(k).score)}

\* the pair of the row just scanned replaced best_match and best_score
Replaced ==
    /\ probe'.best_match = intent_keywords[probe'.row].intent
    /\ probe'.best_score = RowScore(probe'.row).score

\* C28: while the fuzzy gate scans the pairs in table order best_score never
\* decreases and best_match is replaced only by a pair whose score is
\* strictly greater than best_score, so a later pair with a lower or equal
\* score never overwrites an earlier match, and among pairs tied for the
\* highest score the earliest in table order is returned.
C28_StrictOverwrite ==
    /\ [][(IsScan /\ IsScan') =>
            /\ FracGE(probe'.best_score, probe.best_score)
            /\ IF /\ RowScore(probe'.row).found
                  /\ FracGT(RowScore(probe'.row).score, probe.best_score)
               THEN Replaced
               ELSE /\ probe'.best_match = probe.best_match
                    /\ probe'.best_score = probe.best_score]_vars
    /\ []((IsScan /\ probe.row = Len(intent_keywords) /\ TopRows # {}) =>
            probe.best_match = intent_keywords[SetMin(TopRows)].intent)

\* C28 witness: "my list" has been scanned to the end; "list" scores 0.8 for
\* inventory_list and again, later, for shopping_list, and the earlier
\* intent is the one kept
C28_Witness ==
    /\ IsScan
    /\ probe.message = <<"m","y"," ","l","i","s","t">>
    /\ probe.row = Len(intent_keywords)
    /\ Cardinality(TopRows) = 2
    /\ {intent_keywords[n].intent : n \in TopRows}
          = {"inventory_list", "shopping_list"}
    /\ probe.best_match = "inventory_list"
    /\ probe.best_score = <<4, 5>>

-----------------------------------------------------------------------------
(* Properties of the conversation history *)

AllRecorded == \A w \in Workers : ~Busy(w)

\* the exchanges recorded so far, in the order they were recorded
Exchanges == [i \in 1..recorded.exchanges |-> i]

\* C29: once every history-recording call has completed, whatever the
\* interleaving of the calls' statements, a user's history holds at most 10
\* entries; when no two calls overlapped it is exactly the 10 most
\* recently recorded exchanges, in the order they were recorded.
C29_HistoryBounded ==
    AllRecorded =>
        \A user \in DOMAIN chat_history :
            /\ Len(chat_history[user].items) <= 10
            /\ ~recorded.overlapped =>
                  chat_history[user].items = LastN(Exchanges, 10)

\* C29 witness: twelve exchanges were recorded by overlapping calls; the
\* history holds 10 entries and one of the last 10 exchanges is not among
\* them, its append having gone to a list that was being replaced
C29_Witness ==
    /\ AllRecorded
    /\ recorded.overlapped
    /\ recorded.exchanges = 12
    /\ \E user \in DOMAIN chat_history :
          /\ Len(chat_history[user].items) = 10
          /\ chat_history[user].items # LastN(Exchanges, 10)

-----------------------------------------------------------------------------
(* Properties of a whole run of the loop: tool calls *)

ToolCalls == {i \in LoopCalls : trace.calls[i].role \in ToolRoles}

\* the call's input carries every field of the plan's first step
ForFirstStep(call) ==
    /\ context.plan_steps # <<>>
    /\ \A k \in DOMAIN context.plan_steps[1] :
          DictGet(call.input, k, None) = context.plan_steps[1][k]

\* C30: a run of the loop makes at most one tool-agent call (INVENTORY, OCR
\* or RECIPE), and it is for plan step 0: from EXECUTE on the Governor never
\* selects a tool agent, so the later steps of a plan are never executed
\* and execution_results never holds more than one entry.
C30_SingleToolCall ==
    /\ Cardinality(ToolCalls) <= 1
    /\ \A i \in ToolCalls : ForFirstStep(trace.calls[i])
    /\ Len(context.execution_results) <= 1
    /\ context.current_step <= 1
    /\ (pc = "loop" /\ context.current_state \notin {"intent", "plan"}) =>
          decide_next_agent(context.current_state,
                            build_governor_context(context)).allowed_agent
             \notin ToolRoles

\* C30 witness: a run over a three-step plan has ended; the Recipe agent
\* was called once, for the first step, and the two inventory steps after
\* it were never executed
C30_Witness ==
    /\ pc = "done"
    /\ trace.entry = "loop"
    /\ trace.status = "returned"
    /\ Len(context.plan_steps) = 3
    /\ DictGet(context.plan_steps[1], "tool_type", None) = "recipe"
    /\ DictGet(context.plan_steps[2], "tool_type", None) = "inventory"
    /\ Cardinality(ToolCalls) = 1
    /\ \A i \in ToolCalls : trace.calls[i].role = "recipe" /\ trace.calls[i].ok
    /\ Len(context.execution_results) = 1
    /\ context.current_step = 1

====
